---- MODULE Spec2Model ----
(***************************************************************************)
(* A model of the Cato snapshot aggregator (src/src/core/aggregator.py).   *)
(*                                                                         *)
(* Raw task records are the dictionaries the aggregator reads from its     *)
(* stores.  The dictionary keys the pipeline reads are record fields:      *)
(*   id, parent_task_id, is_subtask, dependencies, dependency_ids,         *)
(*   status, assigned_agent_id, name, created_at, updated_at, started_at,  *)
(*   completed_at.                                                         *)
(* Task ids are numbers (the numeric Planka ids of the stores).  The id 0  *)
(* stands for Python's None / a missing key.                               *)
(*                                                                         *)
(* A timestamp string is a number: 0 is None or a missing key, 1 is a      *)
(* string datetime.fromisoformat rejects, 2*t is the ISO string of         *)
(* instant t with an explicit UTC offset and 2*t+1 is the ISO string of    *)
(* the same instant written without an offset (a naive timestamp).  A      *)
(* parsed datetime is the instant t >= 1; 0 is None.                       *)
(***************************************************************************)
EXTENDS Integers, Sequences, FiniteSets, TLC

VARIABLES
    snapshot_version_counter,  \* Aggregator.snapshot_version_counter
    stored_tasks,              \* the raw task records the readers return
    stored_messages,           \* the Message objects handed to duplicate detection
    conversation_parent_ids,   \* parent ids found in the marcus.db event log
    pc,                        \* position of the caller: "idle" before a call, "done" after
    args,                      \* arguments of the last call
    result,                    \* value returned by the last call
    returned                   \* snapshot_version of every snapshot returned so far

vars == <<snapshot_version_counter, stored_tasks, stored_messages,
          conversation_parent_ids, pc, args, result, returned>>

----------------------------------------------------------------------------
(* Bounds of the model *)

MaxTasks == 3      \* number of task records in a store
MaxTime == 2       \* instants 1..MaxTime appear in stored timestamps
MaxCalls == 3      \* create_snapshot calls on one Aggregator
MaxMessages == 4   \* messages handed to duplicate detection
MaxProjectTasks == 2   \* task records in the store of a project-filtered load
MaxSeconds == 4    \* message timestamps are 0..MaxSeconds seconds
MaxExponent == 2   \* exponents are num/den, num in -MaxExponent..MaxExponent
MaxIntervals == 3   \* Task objects handed to the parallelization metrics
MaxNamedTasks == 2   \* tasks handed to slug resolution
MaxIdLength == 3   \* characters of a task id or a project id
MaxWalkTasks == 2   \* tasks of the graph walked one call at a time
MaxDenominator == 4    \* linear positions num/den, den in 1..MaxDenominator

----------------------------------------------------------------------------
(* Python values *)

NoId == 0          \* None / missing id
NoTs == 0          \* None / missing timestamp string
BadTs == 1         \* a timestamp string that does not parse
NoTime == 0        \* None in place of a datetime

Max(S) == CHOOSE x \in S : \A y \in S : y <= x
Min(S) == CHOOSE x \in S : \A y \in S : x <= y

Range(s) == {s[i] : i \in DOMAIN s}

\* the sequence of the elements of seq without repetitions, in order of first occurrence
RECURSIVE Distinct(_)
Distinct(seq) ==
    IF seq = <<>> THEN <<>>
    ELSE LET front == Distinct(SubSeq(seq, 1, Len(seq) - 1))
             last == seq[Len(seq)]
         IN IF last \in Range(front) THEN front ELSE Append(front, last)

\* the elements of a finite set of numbers in ascending order
RECURSIVE Ascending(_)
Ascending(S) ==
    IF S = {} THEN <<>> ELSE <<Min(S)>> \o Ascending(S \ {Min(S)})

BaseTask ==
    [id |-> NoId, parent_task_id |-> NoId, is_subtask |-> "absent",
     dependencies |-> <<>>, dependency_ids |-> <<>>, status |-> "todo",
     assigned_agent_id |-> NoId, name |-> 0,
     created_at |-> NoTs, updated_at |-> NoTs, started_at |-> NoTs,
     completed_at |-> NoTs]

\* dependency lists with at most two entries over a set of ids
DepLists(ids) == {<<>>} \cup {<<a>> : a \in ids} \cup {<<a, b>> : a, b \in ids}

\* the same lists with their entries in ascending order
SortedDepLists(ids) == {d \in DepLists(ids) : Len(d) < 2 \/ d[1] <= d[2]}

----------------------------------------------------------------------------
(* _parse_timestamp and datetime.isoformat *)

parse_timestamp(ts_str) ==
    IF ts_str = NoTs THEN NoTime
    ELSE IF ts_str = BadTs THEN NoTime
    ELSE ts_str \div 2

isoformat(dt) == 2 * dt

----------------------------------------------------------------------------
(* enrich_tasks_with_timing, for a store whose marcus.db holds no task     *)
(* outcomes and no agent timings: the filtering half of the function.      *)

\* datetime.now(timezone.utc): later than every stored instant
now == MaxTime + 1

incomplete_statuses == {"todo", "pending", "in-progress", "in_progress", "blocked"}

\* datetime.fromisoformat succeeds on the string
fromisoformat_ok(ts_str) == ts_str >= 2

\* the subtraction updated_dt - created_dt raises TypeError when exactly one is naive
subtraction_ok(created, updated) == (created % 2) = (updated % 2)

\* the record after the backfill of created_at and updated_at
with_backfilled_timing(task) ==
    IF task.status \in incomplete_statuses
    THEN LET created == IF task.created_at = NoTs THEN isoformat(now) ELSE task.created_at
         IN [task EXCEPT !.created_at = created,
                         !.updated_at = IF task.updated_at = NoTs THEN created ELSE @]
    ELSE IF task.created_at # NoTs /\ task.updated_at = NoTs
         THEN [task EXCEPT !.updated_at = task.created_at]
         ELSE task

\* the task is appended to filtered_tasks
kept_by_enrich(task) ==
    \/ task.status \in incomplete_statuses
    \/ /\ task.created_at # NoTs
       /\ LET updated == with_backfilled_timing(task).updated_at
          IN /\ fromisoformat_ok(task.created_at)
             /\ fromisoformat_ok(updated)
             /\ subtraction_ok(task.created_at, updated)
             /\ (updated \div 2) - (task.created_at \div 2) >= 0

enrich_tasks_with_timing(tasks) ==
    LET kept == SelectSeq(tasks, kept_by_enrich)
    IN [i \in 1..Len(kept) |-> with_backfilled_timing(kept[i])]

----------------------------------------------------------------------------
(* _resolve_slug_dependencies.  A task name is a number n > 0 (0 is the    *)
(* empty name); an entry d < 0 of a dependency list is the slug string     *)
(* numbered -d, and every other entry is a string of digits.  Two names    *)
(* share a slug when they differ only in case or in spaces/underscores.    *)

slug_of(name) == (name + 1) \div 2

\* slug_to_id.get(slug): the id of the last named task with that slug, 0 when there is none
slug_to_id(tasks, slug) ==
    LET found == {i \in DOMAIN tasks : tasks[i].name # 0 /\ tasks[i].id # NoId
                                        /\ slug_of(tasks[i].name) = slug}
    IN IF found = {} THEN NoId ELSE tasks[Max(found)].id

\* without the isdigit test: the digit string d is looked up like the slug d
resolve_dependency_without_isdigit(tasks, dep_id) ==
    LET slug == IF dep_id < 0 THEN -dep_id ELSE dep_id
    IN IF slug_to_id(tasks, slug) # NoId THEN slug_to_id(tasks, slug) ELSE dep_id

resolve_dependency(tasks, dep_id) ==
    IF dep_id < 0 /\ slug_to_id(tasks, -dep_id) # NoId THEN slug_to_id(tasks, -dep_id)
    ELSE dep_id

resolve_slug_dependencies(tasks) ==
    [i \in DOMAIN tasks |->
        [tasks[i] EXCEPT !.dependencies =
            [k \in DOMAIN tasks[i].dependencies |->
                resolve_dependency(tasks, tasks[i].dependencies[k])]]]

----------------------------------------------------------------------------
(* ProjectMatcher.match_task_to_project.  An id is a string, kept as the   *)
(* sequence of its characters over the alphabet 0, 1, x and _.             *)

Digits == {"0", "1"}

digit_value(c) == IF c = "1" THEN 1 ELSE 0

\* task_id.split("_")[0]: the text before the first underscore
RECURSIVE first_token(_)
first_token(str) ==
    IF str = <<>> \/ Head(str) = "_" THEN <<>>
    ELSE <<Head(str)>> \o first_token(Tail(str))

\* int(str) returns: the string is made of digits, with single underscores
\* allowed between two digits; otherwise int raises ValueError
int_accepts(str) ==
    /\ str # <<>>
    /\ \A k \in DOMAIN str : str[k] \in Digits \cup {"_"}
    /\ str[1] # "_"
    /\ str[Len(str)] # "_"
    /\ \A k \in 1..(Len(str) - 1) : ~(str[k] = "_" /\ str[k + 1] = "_")

RECURSIVE int_from(_, _)
int_from(str, value) ==
    IF str = <<>> THEN value
    ELSE int_from(Tail(str),
                  IF Head(str) = "_" THEN value ELSE 10 * value + digit_value(Head(str)))

int_of(str) == int_from(str, 0)

abs(n) == IF n < 0 THEN -n ELSE n

startswith(str, prefix) ==
    Len(str) >= Len(prefix) /\ SubSeq(str, 1, Len(prefix)) = prefix

exact_match(task_id, project_id) ==
    task_id = project_id \/ startswith(task_id, project_id \o <<"_">>)

within_tolerance_strictly(task_num, project_num, matcher_tolerance) ==
    abs(task_num - project_num) < matcher_tolerance

within_tolerance(task_num, project_num, matcher_tolerance) ==
    abs(task_num - project_num) <= matcher_tolerance

fuzzy_match(matcher_tolerance, task_id, project_id) ==
    IF int_accepts(first_token(task_id)) /\ int_accepts(project_id)
    THEN within_tolerance(int_of(first_token(task_id)), int_of(project_id),
                          matcher_tolerance)
    ELSE exact_match(task_id, project_id)

timeframe_match(project_created, project_last_used, task_created) ==
    /\ project_created # NoTime
    /\ project_last_used # NoTime
    /\ task_created # NoTime
    /\ project_created <= task_created
    /\ task_created <= project_last_used

\* the value returned; no branch lets an exception out for string ids
match_task_to_project(matcher_tolerance, task_id, project_id, strategy, project_created, project_last_used, task_created) ==
    [raised |-> FALSE,
     value |-> IF strategy = "exact" THEN exact_match(task_id, project_id)
               ELSE IF strategy = "fuzzy"
                    THEN fuzzy_match(matcher_tolerance, task_id, project_id)
                    ELSE timeframe_match(project_created, project_last_used,
                                         task_created)]

----------------------------------------------------------------------------
(* _load_tasks.  A Planka id is a number: an id of at least four digits    *)
(* stands for a string of at least 8 characters and its first three digits *)
(* for int(id[:8]); an id of six digits or more is "<parent>_sub_<nn>",    *)
(* its last two digits being the index.  The id 0 is the empty string.     *)

NoProject == "None"

\* projects.json as _load_projects returns it: P1 with two Planka ids, P2
\* with a board id of fewer than 8 characters and no project id
projects_data ==
    <<[id |-> "P1", has_provider_config |-> TRUE, board_id |-> 1000, project_id |-> 1500],
      [id |-> "P2", has_provider_config |-> TRUE, board_id |-> 5, project_id |-> NoId]>>

tolerance == 20
ShortestPlankaId == 1000
ShortestSubtaskId == 100000

RECURSIVE id_prefix(_)
id_prefix(id) == IF id < ShortestPlankaId THEN id ELSE id_prefix(id \div 10)

\* the parent id in front of "_sub_", NoId when the id holds no "_sub_"
sub_parent_id(id) == IF id >= ShortestSubtaskId THEN id \div 100 ELSE NoId

project_info_of(project_id) ==
    LET found == {i \in DOMAIN projects_data : projects_data[i].id = project_id}
    IN IF found = {} THEN 0 ELSE Min(found)

target_prefixes_of(info) ==
    LET ids == SelectSeq(<<info.board_id, info.project_id>>,
                         LAMBDA x : x # NoId /\ x >= ShortestPlankaId)
    IN [k \in DOMAIN ids |-> id_prefix(ids[k])]

is_parent_task(task) == task.parent_task_id = NoId /\ task.is_subtask # "true"

\* first pass: the task's own id is within the tolerance of a target prefix
matches_project(task, target_prefixes) ==
    /\ ~is_parent_task(task)
    /\ task.id >= ShortestPlankaId
    /\ \E k \in DOMAIN target_prefixes :
          id_prefix(task.id) - target_prefixes[k] <= tolerance
          /\ target_prefixes[k] - id_prefix(task.id) <= tolerance

\* a second pass that does not look at the dependency ids of the matched tasks
filter_by_project_without_dependencies(all_tasks, conversation_ids, target_prefixes) ==
    LET first_pass == SelectSeq(all_tasks, LAMBDA t : matches_project(t, target_prefixes))
        parent_ids_to_include ==
            {sub_parent_id(first_pass[i].id) : i \in DOMAIN first_pass} \ {NoId}
        second_pass ==
            SelectSeq(all_tasks, LAMBDA t :
                /\ is_parent_task(t)
                /\ t.id \in conversation_ids \cup parent_ids_to_include)
    IN resolve_slug_dependencies(first_pass \o second_pass)

filter_by_project(all_tasks, conversation_ids, target_prefixes) ==
    LET first_pass == SelectSeq(all_tasks, LAMBDA t : matches_project(t, target_prefixes))
        parent_ids_to_include ==
            {sub_parent_id(first_pass[i].id) : i \in DOMAIN first_pass} \ {NoId}
        dependency_ids_to_include ==
            UNION {Range(first_pass[i].dependency_ids) : i \in DOMAIN first_pass}
        second_pass ==
            SelectSeq(all_tasks, LAMBDA t :
                /\ is_parent_task(t)
                /\ t.id \in conversation_ids \cup parent_ids_to_include
                            \cup dependency_ids_to_include)
    IN resolve_slug_dependencies(first_pass \o second_pass)

load_tasks(store, conversation_ids, project_id) ==
    LET all_tasks == enrich_tasks_with_timing(store)
        p == project_info_of(project_id)
    IN IF project_id = NoProject THEN all_tasks
       ELSE IF p = 0 THEN all_tasks
       ELSE IF ~projects_data[p].has_provider_config THEN all_tasks
       ELSE IF projects_data[p].project_id = NoId /\ projects_data[p].board_id = NoId
            THEN all_tasks
       ELSE IF target_prefixes_of(projects_data[p]) = <<>> THEN all_tasks
       ELSE filter_by_project(all_tasks, conversation_ids,
                              target_prefixes_of(projects_data[p]))

----------------------------------------------------------------------------
(* _filter_tasks_by_view *)

\* t.get("is_subtask", bool(t.get("parent_task_id")))
is_subtask_flag_only(t) == t.is_subtask = "true"

is_subtask_or_inferred(t) ==
    IF t.is_subtask = "absent" THEN t.parent_task_id # NoId ELSE t.is_subtask = "true"

parent_ids_with_subtasks(tasks) ==
    {tasks[i].parent_task_id : i \in {j \in DOMAIN tasks : tasks[j].parent_task_id # NoId}}

filter_subtasks_dropping_childless(tasks) ==
    SelectSeq(tasks, LAMBDA t : t.parent_task_id # NoId)

filter_subtasks_view(tasks) ==
    SelectSeq(tasks, LAMBDA t : \/ t.parent_task_id # NoId
                                \/ t.id \notin parent_ids_with_subtasks(tasks))

filter_tasks_by_view(tasks, view_mode) ==
    IF view_mode = "subtasks" THEN filter_subtasks_view(tasks)
    ELSE IF view_mode = "parents"
         THEN SelectSeq(tasks, LAMBDA t : ~is_subtask_or_inferred(t))
         ELSE tasks

----------------------------------------------------------------------------
(* _inherit_parent_dependencies_to_first_subtask *)

\* parent_tasks.get(pid): the last parentless record with that id, 0 when there is none
parent_task_index(tasks, pid) ==
    LET found == {i \in DOMAIN tasks : tasks[i].id = pid /\ tasks[i].parent_task_id = NoId}
    IN IF found = {} THEN 0 ELSE Max(found)

\* keys of subtasks_by_parent in insertion order
subtask_parent_ids(tasks) ==
    Distinct([i \in 1..Len(SelectSeq(tasks, LAMBDA t : t.parent_task_id # NoId)) |->
                SelectSeq(tasks, LAMBDA t : t.parent_task_id # NoId)[i].parent_task_id])

append_all(subtask_deps, parent_deps) == subtask_deps \o parent_deps

\* append each entry of parent_deps that subtask_deps does not hold yet
RECURSIVE append_missing(_, _)
append_missing(subtask_deps, parent_deps) ==
    IF parent_deps = <<>> THEN subtask_deps
    ELSE LET dep == Head(parent_deps)
         IN append_missing(IF dep \in Range(subtask_deps) THEN subtask_deps
                           ELSE Append(subtask_deps, dep),
                           Tail(parent_deps))

\* one iteration of the loop over subtasks_by_parent
inherit_for_parent(tasks, pid) ==
    LET p == parent_task_index(tasks, pid)
    IN IF p = 0 THEN tasks
       ELSE IF tasks[p].dependencies = <<>> THEN tasks
       ELSE LET first_subtasks == {i \in DOMAIN tasks :
                                     /\ tasks[i].parent_task_id = pid
                                     /\ tasks[i].dependencies = <<>>}
            IN IF first_subtasks = {} THEN tasks
               ELSE LET c == Min(first_subtasks)
                    IN [tasks EXCEPT ![c].dependencies =
                            append_missing(tasks[c].dependencies, tasks[p].dependencies)]

RECURSIVE inherit_loop(_, _)
inherit_loop(tasks, pids) ==
    IF pids = <<>> THEN tasks
    ELSE inherit_loop(inherit_for_parent(tasks, Head(pids)), Tail(pids))

inherit_parent_dependencies_to_first_subtask(tasks) ==
    inherit_loop(tasks, subtask_parent_ids(tasks))

----------------------------------------------------------------------------
(* _calculate_synthetic_start_times *)

\* tasks_by_id.get(id): the last record with that id, 0 when there is none
task_index(tasks, id) ==
    LET found == {i \in DOMAIN tasks : tasks[i].id = id}
    IN IF found = {} THEN 0 ELSE Max(found)

get_task_end_time_updated_first(task) ==
    IF task.updated_at # NoTs THEN parse_timestamp(task.updated_at)
    ELSE IF task.completed_at # NoTs THEN parse_timestamp(task.completed_at)
    ELSE IF task.created_at # NoTs THEN parse_timestamp(task.created_at)
    ELSE NoTime

get_task_end_time(task) ==
    IF task.completed_at # NoTs THEN parse_timestamp(task.completed_at)
    ELSE IF task.updated_at # NoTs THEN parse_timestamp(task.updated_at)
    ELSE IF task.created_at # NoTs THEN parse_timestamp(task.created_at)
    ELSE NoTime

\* the loop over dep_ids: latest_dep_end after the entries from k on
RECURSIVE latest_dep_end_from(_, _, _, _)
latest_dep_end_from(tasks, dep_ids, k, latest) ==
    IF k > Len(dep_ids) THEN latest
    ELSE LET d == task_index(tasks, dep_ids[k])
             dep_end == IF d = 0 THEN NoTime ELSE get_task_end_time(tasks[d])
         IN latest_dep_end_from(tasks, dep_ids, k + 1,
                IF dep_end # NoTime /\ (latest = NoTime \/ dep_end > latest)
                THEN dep_end ELSE latest)

\* the body of the loop over tasks, for the task at index i
correct_start_time(tasks, i) ==
    LET task == tasks[i]
        latest_dep_end == latest_dep_end_from(tasks, task.dependencies, 1, NoTime)
    IN IF task.dependencies = <<>> THEN tasks
       ELSE IF latest_dep_end = NoTime THEN tasks
       ELSE IF task.started_at = NoTs
            THEN [tasks EXCEPT ![i].started_at = isoformat(latest_dep_end)]
       ELSE LET task_start == parse_timestamp(task.started_at)
            IN IF task_start # NoTime /\ task_start < latest_dep_end
               THEN [tasks EXCEPT ![i].started_at = isoformat(latest_dep_end)]
               ELSE tasks

RECURSIVE synthetic_start_loop(_, _)
synthetic_start_loop(tasks, i) ==
    IF i > Len(tasks) THEN tasks
    ELSE synthetic_start_loop(correct_start_time(tasks, i), i + 1)

calculate_synthetic_start_times(tasks) == synthetic_start_loop(tasks, 1)

----------------------------------------------------------------------------
(* _build_tasks: the denormalized Task objects *)

\* the Task built from one raw record, before the reverse-dependency pass
build_task(task_data) ==
    [id |-> task_data.id,
     status |-> task_data.status,
     parent_task_id |-> task_data.parent_task_id,
     assigned_agent_id |-> task_data.assigned_agent_id,
     started_at |-> parse_timestamp(task_data.started_at),
     completed_at |-> parse_timestamp(task_data.completed_at),
     dependency_ids |-> task_data.dependencies,
     dependent_task_ids |-> <<>>]

\* task_map[dep_id]: the last Task with that id, 0 when there is none
built_index(tasks, id) ==
    LET found == {i \in DOMAIN tasks : tasks[i].id = id}
    IN IF found = {} THEN 0 ELSE Max(found)

\* no reverse pass
fill_reverse_skipped(tasks, i, k) == tasks

\* the reverse pass: one append per entry of every dependency list, in list order
RECURSIVE fill_reverse(_, _, _)
fill_reverse(tasks, i, k) ==
    IF i > Len(tasks) THEN tasks
    ELSE IF k > Len(tasks[i].dependency_ids) THEN fill_reverse(tasks, i + 1, 1)
    ELSE LET d == built_index(tasks, tasks[i].dependency_ids[k])
         IN fill_reverse(IF d = 0 THEN tasks
                         ELSE [tasks EXCEPT ![d].dependent_task_ids = Append(@, tasks[i].id)],
                         i, k + 1)

build_tasks(task_dicts) ==
    fill_reverse([i \in 1..Len(task_dicts) |-> build_task(task_dicts[i])], 1, 1)

----------------------------------------------------------------------------
(* Timeline positions.  A float is kept exactly, as the root-th root of    *)
(* the fraction num/den (den > 0, root >= 1); a quotient of two durations  *)
(* has root 1.  An exponent is a fraction num/den of integers, den >= 1:   *)
(* x ** (num/den) is the den-th root of x ** num.                          *)

Fraction(num, den) == [num |-> num, den |-> den, root |-> 1]

RECURSIVE int_power(_, _)
int_power(base, n) == IF n = 0 THEN 1 ELSE base * int_power(base, n - 1)

\* linear_pos ** exponent, for 0 < linear_pos < 1
float_power(linear_pos, exponent) ==
    IF exponent.num >= 0
    THEN [num |-> int_power(linear_pos.num, exponent.num),
          den |-> int_power(linear_pos.den, exponent.num),
          root |-> exponent.den]
    ELSE [num |-> int_power(linear_pos.den, -exponent.num),
          den |-> int_power(linear_pos.num, -exponent.num),
          root |-> exponent.den]

calculate_power_scale_position_inverted(linear_pos, exponent) ==
    IF linear_pos.num <= 0 THEN Fraction(0, 1)
    ELSE IF linear_pos.num >= linear_pos.den THEN Fraction(1, 1)
    ELSE float_power(linear_pos, [exponent EXCEPT !.num = -exponent.num])

calculate_power_scale_position(linear_pos, exponent) ==
    IF linear_pos.num <= 0 THEN Fraction(0, 1)
    ELSE IF linear_pos.num >= linear_pos.den THEN Fraction(1, 1)
    ELSE float_power(linear_pos, exponent)

\* _enrich_tasks_with_message_timestamps.  A raw message is a record
\* [task_id, type, timestamp]: type "task_assignment", or "completed" for a
\* worker_to_pm message that reports 100% or COMPLETED.
message_timestamps(messages, task_id, type) ==
    {messages[m].timestamp : m \in {k \in DOMAIN messages :
                                       /\ messages[k].task_id = task_id
                                       /\ messages[k].type = type}}

first_completed_timestamp(messages, task_id) ==
    messages[Min({k \in DOMAIN messages : /\ messages[k].task_id = task_id
                                          /\ messages[k].type = "completed"})].timestamp

enrich_task_with_message_timestamps(task, messages) ==
    LET assigned == message_timestamps(messages, task.id, "task_assignment")
        completed == message_timestamps(messages, task.id, "completed")
    IN [task EXCEPT
           !.started_at = IF assigned # {} THEN Min(assigned) ELSE @,
           !.completed_at = IF completed # {}
                            THEN first_completed_timestamp(messages, task.id) ELSE @]

enrich_tasks_with_message_timestamps(tasks, messages) ==
    [i \in DOMAIN tasks |-> enrich_task_with_message_timestamps(tasks[i], messages)]

\* _calculate_timeline: the boundaries come from created_at and updated_at only
timeline_timestamps(tasks) ==
    {parse_timestamp(tasks[i].created_at) : i \in DOMAIN tasks} \cup
    {parse_timestamp(tasks[i].updated_at) : i \in DOMAIN tasks}

calculate_timeline(tasks) ==
    LET timestamps == timeline_timestamps(tasks) \ {NoTime}
    IN IF timestamps = {}
       THEN [start_time |-> now, end_time |-> now]
       ELSE [start_time |-> Min(timestamps), end_time |-> Max(timestamps)]

\* the positions _build_tasks gives one raw record
timeline_positions(task_data, timeline_start, timeline_end, timeline_scale_exponent) ==
    LET timeline_duration == timeline_end - timeline_start
        created_at == parse_timestamp(task_data.created_at)
        started_at == parse_timestamp(task_data.started_at)
        position_timestamp == IF started_at # NoTime THEN started_at ELSE created_at
    IN IF timeline_duration > 0 /\ position_timestamp # NoTime
       THEN LET linear_pos == Fraction(position_timestamp - timeline_start, timeline_duration)
            IN [id |-> task_data.id,
                timeline_linear_position |-> linear_pos,
                timeline_scaled_position |->
                    calculate_power_scale_position(linear_pos, timeline_scale_exponent)]
       ELSE [id |-> task_data.id,
             timeline_linear_position |-> Fraction(0, 1),
             timeline_scaled_position |-> Fraction(0, 1)]

build_task_positions(task_dicts, timeline_start, timeline_end, timeline_scale_exponent) ==
    [i \in DOMAIN task_dicts |->
        timeline_positions(task_dicts[i], timeline_start, timeline_end,
                           timeline_scale_exponent)]

----------------------------------------------------------------------------
(* _calculate_parallelization_metrics over Task objects, of which it reads *)
(* created_at and updated_at (instants, never None in a Task).             *)

\* "if end_time > start_time"
has_valid_duration(task) == task.updated_at > task.created_at

\* the sorted list of (time, delta) events: at one time the ends (-1) sort
\* before the starts (+1)
RECURSIVE repeated(_, _)
repeated(x, n) == IF n = 0 THEN <<>> ELSE <<x>> \o repeated(x, n - 1)

events_at(tasks, time) ==
    repeated(<<time, -1>>,
             Cardinality({i \in DOMAIN tasks :
                             has_valid_duration(tasks[i]) /\ tasks[i].updated_at = time}))
    \o repeated(<<time, 1>>,
                Cardinality({i \in DOMAIN tasks :
                                has_valid_duration(tasks[i]) /\ tasks[i].created_at = time}))

RECURSIVE sorted_events(_, _, _)
sorted_events(tasks, time, last) ==
    IF time > last THEN <<>>
    ELSE events_at(tasks, time) \o sorted_events(tasks, time + 1, last)

\* a loop that records the count after the event instead of the count that
\* ran up to it
RECURSIVE sweep_events_counting_after(_, _, _)
sweep_events_counting_after(events, k, w) ==
    IF k > Len(events) THEN w
    ELSE LET time == events[k][1]
             delta == events[k][2]
             counted == time > w.last_time /\ w.current_count > 0
         IN sweep_events_counting_after(events, k + 1,
                [current_count |-> w.current_count + delta,
                 last_time |-> time,
                 total_task_time |->
                     IF counted
                     THEN w.total_task_time + (time - w.last_time) * w.current_count
                     ELSE w.total_task_time,
                 concurrent_counts |->
                     IF counted THEN w.concurrent_counts \cup {w.current_count + delta}
                     ELSE w.concurrent_counts])

\* the loop over events: w holds current_count, last_time, total_task_time
\* and the counts appended to concurrent_counts
RECURSIVE sweep_events(_, _, _)
sweep_events(events, k, w) ==
    IF k > Len(events) THEN w
    ELSE LET time == events[k][1]
             delta == events[k][2]
             counted == time > w.last_time /\ w.current_count > 0
         IN sweep_events(events, k + 1,
                [current_count |-> w.current_count + delta,
                 last_time |-> time,
                 total_task_time |->
                     IF counted
                     THEN w.total_task_time + (time - w.last_time) * w.current_count
                     ELSE w.total_task_time,
                 concurrent_counts |->
                     IF counted THEN w.concurrent_counts \cup {w.current_count}
                     ELSE w.concurrent_counts])

RECURSIVE total_task_duration_from(_, _)
total_task_duration_from(tasks, i) ==
    IF i > Len(tasks) THEN 0
    ELSE (IF has_valid_duration(tasks[i])
          THEN tasks[i].updated_at - tasks[i].created_at ELSE 0)
         + total_task_duration_from(tasks, i + 1)

NoMetrics ==
    [peak_parallel_tasks |-> 0,
     average_parallel_tasks |-> Fraction(0, 1),
     parallelization_efficiency |-> Fraction(0, 1)]

uncapped(efficiency) == efficiency

\* min(parallelization_efficiency, 1.0)
capped_at_one(efficiency) ==
    IF efficiency.num >= efficiency.den THEN Fraction(1, 1) ELSE efficiency

calculate_parallelization_metrics(tasks) ==
    LET valid == {i \in DOMAIN tasks : has_valid_duration(tasks[i])}
    IN IF valid = {} THEN NoMetrics
       ELSE LET first == Min({tasks[i].created_at : i \in valid})
                last == Max({tasks[i].updated_at : i \in valid})
                events == sorted_events(tasks, first, last)
                w == sweep_events(events, 1,
                         [current_count |-> 0, last_time |-> events[1][1],
                          total_task_time |-> 0, concurrent_counts |-> {}])
                total_duration == events[Len(events)][1] - events[1][1]
                total_task_duration == total_task_duration_from(tasks, 1)
            IN IF w.concurrent_counts = {} THEN NoMetrics
               ELSE [peak_parallel_tasks |-> Max(w.concurrent_counts),
                     average_parallel_tasks |->
                         IF total_duration > 0
                         THEN Fraction(w.total_task_time, total_duration)
                         ELSE Fraction(0, 1),
                     parallelization_efficiency |->
                         capped_at_one(
                             IF total_duration > 0 /\ total_task_duration > 0
                             THEN Fraction(total_duration, total_task_duration)
                             ELSE Fraction(0, 1))]

----------------------------------------------------------------------------
(* _build_dependency_graph *)

build_dependency_graph_pruned(tasks) ==
    [id \in {tasks[i].id : i \in DOMAIN tasks} |->
        SelectSeq(tasks[built_index(tasks, id)].dependency_ids,
                  LAMBDA d : built_index(tasks, d) # 0)]

build_dependency_graph(tasks) ==
    [id \in {tasks[i].id : i \in DOMAIN tasks} |->
        tasks[built_index(tasks, id)].dependency_ids]

----------------------------------------------------------------------------
(* _build_diagnostic_events, as create_snapshot calls it: _calculate_timeline *)
(* always hands it a timeline start and end, so the early return for a     *)
(* missing timeline is never taken.                                        *)

DiagEvent(type, task_id, dep_id, count, cycle) ==
    [event_type |-> type, task_id |-> task_id, redundant_dependency_id |-> dep_id,
     blocks_count |-> count, cycle |-> cycle]

\* 1. zombie tasks
zombie_events(tasks) ==
    LET z == SelectSeq(tasks, LAMBDA t : t.status = "in_progress" /\ t.assigned_agent_id = NoId)
    IN [i \in 1..Len(z) |-> DiagEvent("diagnostic:zombie_task", z[i].id, NoId, 0, <<>>)]

\* 2. bottlenecks.  all_dependency_entries is every entry of every dependency
\* list in scan order; dependent_count counts entries.
RECURSIVE all_dependency_entries(_, _)
all_dependency_entries(tasks, i) ==
    IF i > Len(tasks) THEN <<>>
    ELSE tasks[i].dependency_ids \o all_dependency_entries(tasks, i + 1)

dependent_count(tasks, dep_id) ==
    LET entries == all_dependency_entries(tasks, 1)
    IN Cardinality({k \in DOMAIN entries : entries[k] = dep_id})

bottleneck_events(tasks) ==
    LET keys == Distinct(all_dependency_entries(tasks, 1))
        hit == SelectSeq(keys, LAMBDA d :
                    /\ dependent_count(tasks, d) >= 3
                    /\ built_index(tasks, d) # 0
                    /\ tasks[built_index(tasks, d)].status # "done")
    IN [i \in 1..Len(hit) |->
            DiagEvent("diagnostic:bottleneck", hit[i], NoId, dependent_count(tasks, hit[i]), <<>>)]

\* 3. circular dependencies.  The state of the search is the pair of shared
\* sets visited and rec_stack; a call returns that state together with the
\* cycle it found (<<>> for None) or the fact that path.index raised ValueError.
SearchState(visited, rec_stack) ==
    [visited |-> visited, rec_stack |-> rec_stack, cycle |-> <<>>, raised |-> FALSE]

index_of(path, x) == Min({i \in DOMAIN path : path[i] = x})

RECURSIVE has_cycle(_, _, _, _), has_cycle_deps(_, _, _, _, _)
has_cycle(tasks, task_id, path, st) ==
    IF task_id \in st.rec_stack
    THEN IF task_id \in Range(path)
         THEN [st EXCEPT !.cycle = SubSeq(path, index_of(path, task_id), Len(path))
                                      \o <<task_id>>]
         ELSE [st EXCEPT !.raised = TRUE]
    ELSE IF task_id \in st.visited \/ built_index(tasks, task_id) = 0 THEN st
    ELSE LET entered == [st EXCEPT !.visited = @ \cup {task_id},
                                   !.rec_stack = @ \cup {task_id}]
             r == has_cycle_deps(tasks, tasks[built_index(tasks, task_id)].dependency_ids,
                                 1, Append(path, task_id), entered)
         IN IF r.raised \/ r.cycle # <<>> THEN r
            ELSE [r EXCEPT !.rec_stack = @ \ {task_id}]

has_cycle_deps(tasks, dep_ids, k, path, st) ==
    IF k > Len(dep_ids) THEN st
    ELSE LET r == has_cycle(tasks, dep_ids[k], path, st)
         IN IF r.raised \/ r.cycle # <<>> THEN r
            ELSE has_cycle_deps(tasks, dep_ids, k + 1, path, r)

\* the loop over tasks: [raised, cycles] after the tasks from index i on
RECURSIVE detect_cycles(_, _, _, _)
detect_cycles(tasks, i, st, detected) ==
    IF i > Len(tasks) THEN [raised |-> FALSE, cycles |-> detected]
    ELSE IF tasks[i].id \in st.visited THEN detect_cycles(tasks, i + 1, st, detected)
    ELSE LET r == has_cycle(tasks, tasks[i].id, <<>>, st)
             next == SearchState(r.visited, r.rec_stack)
         IN IF r.raised THEN [raised |-> TRUE, cycles |-> detected]
            ELSE IF r.cycle = <<>> THEN detect_cycles(tasks, i + 1, next, detected)
            ELSE IF \E k \in DOMAIN detected : Range(detected[k]) = Range(r.cycle)
                 THEN detect_cycles(tasks, i + 1, next, detected)
                 ELSE detect_cycles(tasks, i + 1, next, Append(detected, r.cycle))

cycle_events(cycles) ==
    [i \in 1..Len(cycles) |->
        DiagEvent("diagnostic:circular_dependency", cycles[i][1], NoId, 0, cycles[i])]

\* 4. redundant dependencies.  A walk returns the shared set reachable and
\* the visited_deps set of its top-level call.
RECURSIVE find_reachable(_, _, _), find_reachable_next(_, _, _, _)
find_reachable(tasks, dep_id, w) ==
    IF dep_id \in w.visited_deps \/ built_index(tasks, dep_id) = 0 THEN w
    ELSE find_reachable_next(tasks, tasks[built_index(tasks, dep_id)].dependency_ids, 1,
                             [w EXCEPT !.visited_deps = @ \cup {dep_id}])

find_reachable_next(tasks, next_deps, k, w) ==
    IF k > Len(next_deps) THEN w
    ELSE find_reachable_next(tasks, next_deps, k + 1,
            find_reachable(tasks, next_deps[k],
                           [w EXCEPT !.reachable = @ \cup {next_deps[k]}]))

\* the loop "for dep_id in task.dependency_ids: find_reachable(dep_id, set())"
RECURSIVE reachable_through(_, _, _, _)
reachable_through(tasks, dep_ids, k, reachable) ==
    IF k > Len(dep_ids) THEN reachable
    ELSE reachable_through(tasks, dep_ids, k + 1,
            find_reachable(tasks, dep_ids[k],
                           [reachable |-> reachable, visited_deps |-> {}]).reachable)

\* set(task.dependency_ids) & reachable, for a task the loop does not skip
redundant_of(tasks, task) ==
    IF Len(task.dependency_ids) < 2 THEN {}
    ELSE Range(task.dependency_ids) \cap reachable_through(tasks, task.dependency_ids, 1, {})

\* "for redundant_dep in redundant" runs over a set; its elements are taken in
\* ascending order here.
RECURSIVE redundant_events(_, _)
redundant_events(tasks, i) ==
    IF i > Len(tasks) THEN <<>>
    ELSE LET named == Ascending({d \in redundant_of(tasks, tasks[i]) :
                                    built_index(tasks, d) # 0})
         IN [k \in 1..Len(named) |->
                DiagEvent("diagnostic:redundant_dependency", tasks[i].id, named[k], 0, <<>>)]
            \o redundant_events(tasks, i + 1)

\* [raised, events]: the list returned, or the ValueError that leaves the function
build_diagnostic_events(tasks) ==
    LET found == detect_cycles(tasks, 1, SearchState({}, {}), <<>>)
    IN IF found.raised THEN [raised |-> TRUE, events |-> <<>>]
       ELSE [raised |-> FALSE,
             events |-> zombie_events(tasks) \o bottleneck_events(tasks)
                        \o cycle_events(found.cycles) \o redundant_events(tasks, 1)]

----------------------------------------------------------------------------
(* _detect_duplicates.  A Message is a record; its field key stands for    *)
(* the tuple (hash(message), from_agent_id, to_agent_id, task_id, type)    *)
(* the code groups by, and timestamp is in whole seconds.                  *)

time_threshold_seconds == 2

NewMessage(key, timestamp) ==
    [key |-> key, timestamp |-> timestamp, is_duplicate |-> FALSE,
     duplicate_group_id |-> 0, duplicate_count |-> 0]

\* sorted(group_messages, key=timestamp): a stable sort of the indexes in idxs
RECURSIVE sorted_by_timestamp(_, _)
sorted_by_timestamp(messages, idxs) ==
    IF idxs = {} THEN <<>>
    ELSE LET first == CHOOSE i \in idxs : \A j \in idxs :
                          \/ messages[i].timestamp < messages[j].timestamp
                          \/ messages[i].timestamp = messages[j].timestamp /\ i <= j
         IN <<first>> \o sorted_by_timestamp(messages, idxs \ {first})

\* a window that compares a message with the one before it
RECURSIVE window_end_chained(_, _, _, _)
window_end_chained(messages, sorted_messages, i, j) ==
    IF j > Len(sorted_messages) THEN j
    ELSE IF messages[sorted_messages[j]].timestamp - messages[sorted_messages[j - 1]].timestamp
               <= time_threshold_seconds
         THEN window_end_chained(messages, sorted_messages, i, j + 1)
         ELSE j

\* the inner while loop: the first position after i whose message is more
\* than the threshold away from the message at position i
RECURSIVE window_end(_, _, _, _)
window_end(messages, sorted_messages, i, j) ==
    IF j > Len(sorted_messages) THEN j
    ELSE IF messages[sorted_messages[j]].timestamp - messages[sorted_messages[i]].timestamp
               <= time_threshold_seconds
         THEN window_end(messages, sorted_messages, i, j + 1)
         ELSE j

mark_duplicate_set_all_flagged(messages, sorted_messages, i, j, group_counter) ==
    [m \in DOMAIN messages |->
        IF \E k \in i..(j - 1) : sorted_messages[k] = m
        THEN [messages[m] EXCEPT !.is_duplicate = TRUE,
                                 !.duplicate_group_id = group_counter,
                                 !.duplicate_count = j - i]
        ELSE messages[m]]

\* the loop over enumerate(duplicate_set), the set being positions i..j-1
mark_duplicate_set(messages, sorted_messages, i, j, group_counter) ==
    [m \in DOMAIN messages |->
        IF \E k \in i..(j - 1) : sorted_messages[k] = m
        THEN [messages[m] EXCEPT !.is_duplicate = (sorted_messages[i] # m),
                                 !.duplicate_group_id = group_counter,
                                 !.duplicate_count = j - i]
        ELSE messages[m]]

\* the outer while loop over one group; w is [messages, group_counter]
RECURSIVE sweep_group(_, _, _)
sweep_group(w, sorted_messages, i) ==
    IF i > Len(sorted_messages) THEN w
    ELSE LET j == window_end(w.messages, sorted_messages, i, i + 1)
         IN sweep_group(IF j - i > 1
                        THEN [messages |-> mark_duplicate_set(w.messages, sorted_messages,
                                                              i, j, w.group_counter + 1),
                              group_counter |-> w.group_counter + 1]
                        ELSE w,
                        sorted_messages,
                        IF j > i + 1 THEN j ELSE i + 1)

\* the loop over groups.items(), keys in order of first occurrence
RECURSIVE sweep_groups(_, _)
sweep_groups(w, keys) ==
    IF keys = <<>> THEN w
    ELSE LET group_messages == {m \in DOMAIN w.messages : w.messages[m].key = Head(keys)}
         IN sweep_groups(IF Cardinality(group_messages) < 2 THEN w
                         ELSE sweep_group(w, sorted_by_timestamp(w.messages, group_messages), 1),
                         Tail(keys))

detect_duplicates(messages) ==
    sweep_groups([messages |-> messages, group_counter |-> 0],
                 Distinct([m \in DOMAIN messages |-> messages[m].key])).messages

----------------------------------------------------------------------------
(* create_snapshot, for a store without messages and events: the task      *)
(* pipeline, the diagnostics and the dependency graph.  version is the     *)
(* value of snapshot_version_counter after the increment at the top of the *)
(* call.  The result is the Snapshot, or the exception that left the call. *)

ViewModes == {"subtasks", "parents", "all"}

visible_task_dicts(store, conversation_ids, project_id, view_mode) ==
    calculate_synthetic_start_times(
        filter_tasks_by_view(
            inherit_parent_dependencies_to_first_subtask(
                load_tasks(store, conversation_ids, project_id)),
            view_mode))

snapshot_version_stale(version) == 1

\* Snapshot(snapshot_version=self.snapshot_version_counter, ...)
snapshot_version_of(version) == version

create_snapshot(store, conversation_ids, version, project_id, view_mode) ==
    LET tasks == build_tasks(visible_task_dicts(store, conversation_ids, project_id, view_mode))
        diagnostic_events == build_diagnostic_events(tasks)
    IN IF diagnostic_events.raised
       THEN [raised |-> TRUE]
       ELSE [raised |-> FALSE,
             snapshot_version |-> snapshot_version_of(version),
             project_id |-> project_id,
             project_filter_applied |-> project_id # NoProject,
             view_mode |-> view_mode,
             tasks |-> tasks,
             timeline_events |-> diagnostic_events.events,
             task_dependency_graph |-> build_dependency_graph(tasks)]

\* steps 1 to 7 of create_snapshot with the messages of the conversation
\* logs: the timeline positions of the Task objects of the snapshot
snapshot_task_positions(store, messages, conversation_ids, project_id, view_mode, timeline_scale_exponent) ==
    LET filtered_tasks ==
            calculate_synthetic_start_times(
                enrich_tasks_with_message_timestamps(
                    filter_tasks_by_view(
                        inherit_parent_dependencies_to_first_subtask(
                            load_tasks(store, conversation_ids, project_id)),
                        view_mode),
                    messages))
        timeline == calculate_timeline(filtered_tasks)
    IN build_task_positions(filtered_tasks, timeline.start_time, timeline.end_time,
                            timeline_scale_exponent)

----------------------------------------------------------------------------
(* Specifications.  Each one starts from a store drawn from a bounded set  *)
(* and lets a caller invoke operations of the aggregator.                  *)

NewAggregator ==
    /\ snapshot_version_counter = 0
    /\ returned = <<>>
    /\ pc = "idle"
    /\ args = <<>>
    /\ result = <<>>

TaskWithDeps(i, deps) == [BaseTask EXCEPT !.id = i, !.dependencies = deps]

\* ids 1..n are the stored tasks; n + 1 names no task (a dangling reference)
DepChoices(n) == SortedDepLists(1..(n + 1))

(* Spec: a caller makes create_snapshot calls one after another on one    *)
(* Aggregator over a store of up to MaxTasks tasks.  Every task but the    *)
(* first may be a child of the first and every task may depend on one id.  *)

ChildChoices(n) ==
    [parent_task_id : {NoId, 1}, dependencies : {d \in DepLists(1..(n + 1)) : Len(d) <= 1}]

Init ==
    /\ NewAggregator
    /\ \E n \in 1..MaxTasks : \E f \in [1..n -> ChildChoices(n)] :
          stored_tasks = [i \in 1..n |->
                            [BaseTask EXCEPT !.id = i,
                                             !.parent_task_id =
                                                 IF i = 1 THEN NoId ELSE f[i].parent_task_id,
                                             !.dependencies = f[i].dependencies]]
    /\ stored_messages = <<>>
    /\ conversation_parent_ids = {}

CreateSnapshot ==
    /\ snapshot_version_counter < MaxCalls
    /\ snapshot_version_counter' = snapshot_version_counter + 1
    /\ \E view_mode \in ViewModes :
          /\ args' = <<NoProject, view_mode>>
          /\ result' = create_snapshot(stored_tasks, conversation_parent_ids,
                                       snapshot_version_counter', NoProject, view_mode)
    /\ returned' = IF result'.raised THEN returned
                   ELSE Append(returned, result'.snapshot_version)
    /\ pc' = "done"
    /\ UNCHANGED <<stored_tasks, stored_messages, conversation_parent_ids>>

Next == CreateSnapshot

Spec == Init /\ [][Next]_vars

----------------------------------------------------------------------------
(* SpecDiag: the diagnostics pass over the Task objects built from a store *)

InitDiag ==
    /\ NewAggregator
    /\ \E n \in 1..MaxTasks : \E f \in [1..n -> DepChoices(n)] :
          stored_tasks = [i \in 1..n |-> TaskWithDeps(i, f[i])]
    /\ stored_messages = <<>>
    /\ conversation_parent_ids = {}

BuildDiagnosticEvents ==
    /\ pc = "idle"
    /\ pc' = "done"
    /\ args' = build_tasks(stored_tasks)
    /\ result' = build_diagnostic_events(args')
    /\ UNCHANGED <<snapshot_version_counter, stored_tasks, stored_messages,
                   conversation_parent_ids, returned>>

NextDiag == BuildDiagnosticEvents

SpecDiag == InitDiag /\ [][NextDiag]_vars

----------------------------------------------------------------------------
(* SpecView: _filter_tasks_by_view over a list of tasks whose parent may   *)
(* be any task of the list or an id that names no task.                    *)

ViewChoices(n) == [parent_task_id : 0..(n + 1), is_subtask : {"absent", "true", "false"}]

InitView ==
    /\ NewAggregator
    /\ \E n \in 1..MaxTasks : \E f \in [1..n -> ViewChoices(n)] :
          stored_tasks = [i \in 1..n |->
                            [BaseTask EXCEPT !.id = i,
                                             !.parent_task_id = f[i].parent_task_id,
                                             !.is_subtask = f[i].is_subtask]]
    /\ stored_messages = <<>>
    /\ conversation_parent_ids = {}

FilterTasksByView ==
    /\ pc = "idle"
    /\ pc' = "done"
    /\ \E view_mode \in ViewModes :
          /\ args' = <<stored_tasks, view_mode>>
          /\ result' = filter_tasks_by_view(stored_tasks, view_mode)
    /\ UNCHANGED <<snapshot_version_counter, stored_tasks, stored_messages,
                   conversation_parent_ids, returned>>

NextView == FilterTasksByView

SpecView == InitView /\ [][NextView]_vars

----------------------------------------------------------------------------
(* SpecInherit: _inherit_parent_dependencies_to_first_subtask over a list  *)
(* of tasks whose parent may be any task of the list and whose             *)
(* dependencies are ids outside the list.                                  *)

OutsideIds == {8, 9}

InheritDeps == DepLists(OutsideIds)

InheritChoices(n) == [parent_task_id : 0..n, dependencies : InheritDeps]

InitInherit ==
    /\ NewAggregator
    /\ \E n \in 1..MaxTasks : \E f \in [1..n -> InheritChoices(n)] :
          stored_tasks = [i \in 1..n |->
                            [BaseTask EXCEPT !.id = i,
                                             !.parent_task_id = f[i].parent_task_id,
                                             !.dependencies = f[i].dependencies]]
    /\ stored_messages = <<>>
    /\ conversation_parent_ids = {}

InheritParentDependencies ==
    /\ pc = "idle"
    /\ pc' = "done"
    /\ args' = stored_tasks
    /\ result' = inherit_parent_dependencies_to_first_subtask(stored_tasks)
    /\ UNCHANGED <<snapshot_version_counter, stored_tasks, stored_messages,
                   conversation_parent_ids, returned>>

NextInherit == InheritParentDependencies

SpecInherit == InitInherit /\ [][NextInherit]_vars

----------------------------------------------------------------------------
(* SpecStart: _calculate_synthetic_start_times over three visible tasks.   *)
(* Tasks 1 and 2 carry the end times; task 3 depends on up to two of the   *)
(* ids 1..4 (4 names no task) and carries a start time of its own.         *)

AwareTimestamps == {NoTs, BadTs} \cup {isoformat(t) : t \in 1..MaxTime}
Timestamps == AwareTimestamps \cup {isoformat(t) + 1 : t \in 1..MaxTime}

InitStart ==
    /\ NewAggregator
    /\ \E completed1 \in Timestamps, updated1, created1, completed2 \in AwareTimestamps,
          deps1 \in {<<>>, <<2>>}, started3 \in Timestamps,
          completed3 \in {NoTs, isoformat(MaxTime)}, deps3 \in DepLists(1..4) :
          stored_tasks =
              << [BaseTask EXCEPT !.id = 1, !.completed_at = completed1,
                                  !.updated_at = updated1, !.created_at = created1,
                                  !.dependencies = deps1],
                 [BaseTask EXCEPT !.id = 2, !.completed_at = completed2],
                 [BaseTask EXCEPT !.id = 3, !.started_at = started3,
                                  !.completed_at = completed3, !.dependencies = deps3] >>
    /\ stored_messages = <<>>
    /\ conversation_parent_ids = {}

CalculateSyntheticStartTimes ==
    /\ pc = "idle"
    /\ pc' = "done"
    /\ args' = stored_tasks
    /\ result' = calculate_synthetic_start_times(stored_tasks)
    /\ UNCHANGED <<snapshot_version_counter, stored_tasks, stored_messages,
                   conversation_parent_ids, returned>>

NextStart == CalculateSyntheticStartTimes

SpecStart == InitStart /\ [][NextStart]_vars

----------------------------------------------------------------------------
(* SpecDup: _detect_duplicates over up to MaxMessages fresh Message        *)
(* objects, in any order of timestamps.                                    *)

MessageKeys == {1, 2}

InitDup ==
    /\ NewAggregator
    /\ stored_tasks = <<>>
    /\ \E n \in 1..MaxMessages :
          \E f \in [1..n -> [key : MessageKeys, timestamp : 0..MaxSeconds]] :
             stored_messages = [m \in 1..n |-> NewMessage(f[m].key, f[m].timestamp)]
    /\ conversation_parent_ids = {}

DetectDuplicates ==
    /\ pc = "idle"
    /\ pc' = "done"
    /\ args' = stored_messages
    /\ result' = detect_duplicates(stored_messages)
    /\ UNCHANGED <<snapshot_version_counter, stored_tasks, stored_messages,
                   conversation_parent_ids, returned>>

NextDup == DetectDuplicates

SpecDup == InitDup /\ [][NextDup]_vars

----------------------------------------------------------------------------
(* SpecLoad: _load_tasks and create_snapshot with the project filter of    *)
(* project P1 (board prefix 100, project prefix 150).  A stored task has   *)
(* an id with prefix 100, 120 or 121; it is a top-level task, a task       *)
(* flagged is_subtask, or a child of the first task; it may list the       *)
(* first task in dependency_ids.  The event log names the first task or    *)
(* nothing.                                                                *)

ProjectTaskChoices ==
    [prefix : {100, 120, 121},
     kind : {"top", "flagged", "child"},
     status : {"pending", "in-progress", "completed"},
     depends : BOOLEAN]

project_task_id(f, i) == f[i].prefix * 10 + i

ProjectTask(f, i) ==
    [BaseTask EXCEPT
        !.id = project_task_id(f, i),
        !.parent_task_id = IF f[i].kind = "child" /\ i > 1 THEN project_task_id(f, 1) ELSE NoId,
        !.is_subtask = IF f[i].kind = "flagged" THEN "true" ELSE "absent",
        !.status = f[i].status,
        !.created_at = IF f[i].status = "completed" THEN isoformat(1) ELSE NoTs,
        !.dependency_ids = IF f[i].depends THEN <<project_task_id(f, 1)>> ELSE <<>>,
        !.dependencies = IF f[i].depends THEN <<project_task_id(f, 1)>> ELSE <<>>]

InitLoad ==
    /\ NewAggregator
    /\ \E n \in 1..MaxProjectTasks : \E f \in [1..n -> ProjectTaskChoices] :
          /\ stored_tasks = [i \in 1..n |-> ProjectTask(f, i)]
          /\ conversation_parent_ids \in {{}, {project_task_id(f, 1)}}
    /\ stored_messages = <<>>

LoadTasks ==
    /\ pc = "idle"
    /\ pc' = "loaded"
    /\ args' = <<"P1">>
    /\ result' = load_tasks(stored_tasks, conversation_parent_ids, "P1")
    /\ UNCHANGED <<snapshot_version_counter, stored_tasks, stored_messages,
                   conversation_parent_ids, returned>>

CreateProjectSnapshot ==
    /\ pc = "idle"
    /\ pc' = "done"
    /\ snapshot_version_counter' = snapshot_version_counter + 1
    /\ args' = <<"P1", "subtasks">>
    /\ result' = create_snapshot(stored_tasks, conversation_parent_ids,
                                 snapshot_version_counter', "P1", "subtasks")
    /\ returned' = IF result'.raised THEN returned
                   ELSE Append(returned, result'.snapshot_version)
    /\ UNCHANGED <<stored_tasks, stored_messages, conversation_parent_ids>>

NextLoad == LoadTasks \/ CreateProjectSnapshot

SpecLoad == InitLoad /\ [][NextLoad]_vars

----------------------------------------------------------------------------
(* SpecInclude: _load_tasks with the project filter of project P1 over a   *)
(* store of top-level tasks, flagged subtasks and children.  The ids are   *)
(* 1001 and 1002 (within the tolerance of the board prefix 100), 1801 (of  *)
(* another board), and "1001_sub_01" and "1801_sub_01"; a task may list    *)
(* one id in dependency_ids, and the event log names 1801 or nothing.      *)

IncludeTaskIds == {1001, 1002, 1801, 100101, 180101}

IncludeTaskChoices ==
    [id : IncludeTaskIds,
     kind : {"top", "flagged", "child"},
     dependency_ids : {<<>>, <<1002>>, <<1801>>}]

IncludeTask(c) ==
    [BaseTask EXCEPT
        !.id = c.id,
        !.parent_task_id = IF c.kind = "child"
                           THEN (IF sub_parent_id(c.id) # NoId THEN sub_parent_id(c.id) ELSE 1001)
                           ELSE NoId,
        !.is_subtask = IF c.kind = "flagged" THEN "true" ELSE "absent",
        !.status = "pending",
        !.dependency_ids = c.dependency_ids,
        !.dependencies = c.dependency_ids]

InitInclude ==
    /\ NewAggregator
    /\ \E n \in 1..MaxProjectTasks : \E f \in [1..n -> IncludeTaskChoices] :
          stored_tasks = [i \in 1..n |-> IncludeTask(f[i])]
    /\ conversation_parent_ids \in {{}, {1801}}
    /\ stored_messages = <<>>

LoadProjectTasks ==
    /\ pc = "idle"
    /\ pc' = "loaded"
    /\ args' = enrich_tasks_with_timing(stored_tasks)
    /\ result' = load_tasks(stored_tasks, conversation_parent_ids, "P1")
    /\ UNCHANGED <<snapshot_version_counter, stored_tasks, stored_messages,
                   conversation_parent_ids, returned>>

NextInclude == LoadProjectTasks

SpecInclude == InitInclude /\ [][NextInclude]_vars

----------------------------------------------------------------------------
(* SpecTimeline: the timeline positions of create_snapshot over two tasks  *)
(* with timestamps of their own, the second of which may depend on the     *)
(* first, and at most one message of the conversation logs.  The caller    *)
(* passes the exponent: the API hands the query parameter on unchecked.    *)

ExponentDenominators == {1, 5}

\* 0.4, the default of timeline_scale_exponent
default_exponent == [num |-> 2, den |-> 5]

Exponents == [num : (-MaxExponent)..MaxExponent, den : ExponentDenominators]

Instants == {NoTs} \cup {isoformat(t) : t \in 1..MaxTime}

\* a completion and a message may be as late as the call itself
LateInstants == Instants \cup {isoformat(now)}

RawMessages == [task_id : {1, 2}, type : {"task_assignment", "completed"},
                timestamp : LateInstants \ {NoTs}]

InitTimeline ==
    /\ NewAggregator
    /\ \E created1, updated1, created2, started2 \in Instants,
          completed1 \in LateInstants, deps2 \in {<<>>, <<1>>} :
          stored_tasks =
              << [BaseTask EXCEPT !.id = 1, !.created_at = created1,
                                  !.updated_at = updated1, !.completed_at = completed1],
                 [BaseTask EXCEPT !.id = 2, !.created_at = created2,
                                  !.started_at = started2, !.dependencies = deps2] >>
    /\ stored_messages \in {<<>>} \cup {<<m>> : m \in RawMessages}
    /\ conversation_parent_ids = {}

CreateSnapshotPositions ==
    /\ pc = "idle"
    /\ pc' = "done"
    /\ snapshot_version_counter' = snapshot_version_counter + 1
    /\ \E timeline_scale_exponent \in Exponents :
          /\ args' = <<NoProject, "all", timeline_scale_exponent>>
          /\ result' = snapshot_task_positions(stored_tasks, stored_messages,
                                               conversation_parent_ids, NoProject, "all",
                                               timeline_scale_exponent)
    /\ UNCHANGED <<stored_tasks, stored_messages, conversation_parent_ids, returned>>

NextTimeline == CreateSnapshotPositions

SpecTimeline == InitTimeline /\ [][NextTimeline]_vars

----------------------------------------------------------------------------
(* SpecScale: _calculate_power_scale_position applied to a linear position *)
(* num/den, also below 0 and above 1, and an exponent.                     *)

LinearPositions ==
    {Fraction(num, den) : num \in (-1)..(MaxDenominator + 1), den \in 1..MaxDenominator}

InitScale ==
    /\ NewAggregator
    /\ stored_tasks = <<>>
    /\ stored_messages = <<>>
    /\ conversation_parent_ids = {}

CalculatePowerScalePosition ==
    /\ pc = "idle"
    /\ pc' = "done"
    /\ \E linear_pos \in LinearPositions, exponent \in Exponents :
          /\ args' = <<linear_pos, exponent>>
          /\ result' = calculate_power_scale_position(linear_pos, exponent)
    /\ UNCHANGED <<snapshot_version_counter, stored_tasks, stored_messages,
                   conversation_parent_ids, returned>>

NextScale == CalculatePowerScalePosition

SpecScale == InitScale /\ [][NextScale]_vars

----------------------------------------------------------------------------
(* SpecParallel: _calculate_parallelization_metrics over up to             *)
(* MaxIntervals Task objects, each created and updated at any two instants *)
(* (so that a task may have a zero or a negative duration).                *)

IntervalInstants == 1..(MaxTime + 2)

InitParallel ==
    /\ NewAggregator
    /\ \E n \in 0..MaxIntervals :
          \E f \in [1..n -> [created_at : IntervalInstants, updated_at : IntervalInstants]] :
             stored_tasks = [i \in 1..n |->
                               [BaseTask EXCEPT !.id = i,
                                                !.created_at = isoformat(f[i].created_at),
                                                !.updated_at = isoformat(f[i].updated_at)]]
    /\ stored_messages = <<>>
    /\ conversation_parent_ids = {}

\* the Task objects the metrics read
task_intervals(task_dicts) ==
    [i \in DOMAIN task_dicts |->
        [id |-> task_dicts[i].id,
         created_at |-> parse_timestamp(task_dicts[i].created_at),
         updated_at |-> parse_timestamp(task_dicts[i].updated_at)]]

CalculateParallelizationMetrics ==
    /\ pc = "idle"
    /\ pc' = "done"
    /\ args' = task_intervals(stored_tasks)
    /\ result' = calculate_parallelization_metrics(args')
    /\ UNCHANGED <<snapshot_version_counter, stored_tasks, stored_messages,
                   conversation_parent_ids, returned>>

NextParallel == CalculateParallelizationMetrics

SpecParallel == InitParallel /\ [][NextParallel]_vars

----------------------------------------------------------------------------
(* SpecSlug: _resolve_slug_dependencies applied to a list of up to         *)
(* MaxNamedTasks tasks, and then again to its own result.  A task has no   *)
(* name or one of three names, two of which share a slug; a dependency     *)
(* list holds digit strings (1 names a task, 9 none) and slugs.            *)

TaskNames == 0..3

SlugDepLists == {<<>>, <<-1>>, <<-2>>, <<1>>, <<9>>, <<1, -1>>, <<9, 1>>}

InitSlug ==
    /\ NewAggregator
    /\ \E n \in 1..MaxNamedTasks :
          \E f \in [1..n -> [name : TaskNames, dependencies : SlugDepLists]] :
             stored_tasks = [i \in 1..n |->
                               [BaseTask EXCEPT !.id = i, !.name = f[i].name,
                                                !.dependencies = f[i].dependencies]]
    /\ stored_messages = <<>>
    /\ conversation_parent_ids = {}

ResolveSlugDependencies ==
    /\ pc \in {"idle", "once"}
    /\ pc' = IF pc = "idle" THEN "once" ELSE "twice"
    /\ args' = IF pc = "idle" THEN stored_tasks ELSE result
    /\ result' = resolve_slug_dependencies(args')
    /\ returned' = Append(returned, result')
    /\ UNCHANGED <<snapshot_version_counter, stored_tasks, stored_messages,
                   conversation_parent_ids>>

NextSlug == ResolveSlugDependencies

SpecSlug == InitSlug /\ [][NextSlug]_vars

----------------------------------------------------------------------------
(* SpecNamed: _load_tasks, called without a project id or with the id of   *)
(* project P1, over a store of named tasks flagged as subtasks whose ids   *)
(* (1001, 1002, ...) are within the tolerance of the board of P1.  A       *)
(* dependency list holds the id 1001 and slugs.                            *)

NamedDepLists == {<<>>, <<-1>>, <<-2>>, <<1001>>, <<1001, -1>>}

InitNamed ==
    /\ NewAggregator
    /\ \E n \in 1..MaxNamedTasks :
          \E f \in [1..n -> [name : TaskNames, dependencies : NamedDepLists]] :
             stored_tasks = [i \in 1..n |->
                               [BaseTask EXCEPT !.id = ShortestPlankaId + i,
                                                !.is_subtask = "true",
                                                !.status = "pending",
                                                !.name = f[i].name,
                                                !.dependencies = f[i].dependencies]]
    /\ stored_messages = <<>>
    /\ conversation_parent_ids = {}

LoadNamedTasks ==
    /\ pc = "idle"
    /\ \E project_id \in {NoProject, "P1"} :
          /\ args' = <<project_id>>
          /\ result' = load_tasks(stored_tasks, conversation_parent_ids, project_id)
    /\ pc' = "loaded"
    /\ UNCHANGED <<snapshot_version_counter, stored_tasks, stored_messages,
                   conversation_parent_ids, returned>>

NextNamed == LoadNamedTasks

SpecNamed == InitNamed /\ [][NextNamed]_vars

----------------------------------------------------------------------------
(* SpecMatch: match_task_to_project called once with a strategy, on a      *)
(* matcher of some tolerance and on ids of up to MaxIdLength characters.   *)

Alphabet == Digits \cup {"x", "_"}

IdStrings == UNION {[1..n -> Alphabet] : n \in 0..MaxIdLength}

Tolerances == {0, 1, tolerance}

OptionalTimes == {NoTime} \cup (1..MaxTime)

InitMatch ==
    /\ NewAggregator
    /\ stored_tasks = <<>>
    /\ stored_messages = <<>>
    /\ conversation_parent_ids = {}

MatchCalled(matcher_tolerance, task_id, project_id, strategy, project_created, project_last_used, task_created) ==
    /\ pc' = "done"
    /\ args' = <<matcher_tolerance, task_id, project_id, strategy,
                 project_created, project_last_used, task_created>>
    /\ result' = match_task_to_project(matcher_tolerance, task_id, project_id, strategy,
                                       project_created, project_last_used, task_created)
    /\ UNCHANGED <<snapshot_version_counter, stored_tasks, stored_messages,
                   conversation_parent_ids, returned>>

MatchExact ==
    /\ pc = "idle"
    /\ \E task_id, project_id \in IdStrings :
          MatchCalled(tolerance, task_id, project_id, "exact", NoTime, NoTime, NoTime)

MatchFuzzy ==
    /\ pc = "idle"
    /\ \E matcher_tolerance \in Tolerances, task_id, project_id \in IdStrings :
          MatchCalled(matcher_tolerance, task_id, project_id, "fuzzy",
                      NoTime, NoTime, NoTime)

MatchTimeframe ==
    /\ pc = "idle"
    /\ \E project_created, project_last_used, task_created \in OptionalTimes :
          MatchCalled(tolerance, <<"1">>, <<"1">>, "timeframe",
                      project_created, project_last_used, task_created)

NextMatch == MatchExact \/ MatchFuzzy \/ MatchTimeframe

SpecMatch == InitMatch /\ [][NextMatch]_vars

----------------------------------------------------------------------------
(* SpecThreads: the API process.  The request handler, the prewarm thread  *)
(* and the refresh thread each make one create_snapshot call on the one    *)
(* module-level Aggregator, with no lock.  A call is three steps that      *)
(* other threads may run between: the read of the counter and the write of *)
(* the incremented value (line 182: the += is a load and a store), and the *)
(* rest of the call, which reads the counter again for the Snapshot (line  *)
(* 321).  pc, args and result are per thread.                              *)

Threads == {"request", "prewarm", "refresh"}

\* the view a thread asks for: the background threads serve the default view
thread_view_modes(thread) == IF thread = "request" THEN ViewModes ELSE {"subtasks"}

InitThreads ==
    /\ snapshot_version_counter = 0
    /\ returned = <<>>
    /\ pc = [thread \in Threads |-> "idle"]
    /\ args = [thread \in Threads |-> [loaded |-> 0, assigned |-> 0]]
    /\ result = [thread \in Threads |-> <<>>]
    /\ \E n \in 1..MaxProjectTasks : \E f \in [1..n -> ChildChoices(n)] :
          stored_tasks = [i \in 1..n |->
                            [BaseTask EXCEPT !.id = i,
                                             !.parent_task_id =
                                                 IF i = 1 THEN NoId ELSE f[i].parent_task_id,
                                             !.dependencies = f[i].dependencies]]
    /\ stored_messages = <<>>
    /\ conversation_parent_ids = {}

\* self.snapshot_version_counter += 1, first half: the load
LoadCounter(thread) ==
    /\ pc[thread] = "idle"
    /\ pc' = [pc EXCEPT ![thread] = "loaded"]
    /\ args' = [args EXCEPT ![thread].loaded = snapshot_version_counter]
    /\ UNCHANGED <<snapshot_version_counter, stored_tasks, stored_messages,
                   conversation_parent_ids, result, returned>>

\* second half: the store of the loaded value plus one
StoreCounter(thread) ==
    /\ pc[thread] = "loaded"
    /\ pc' = [pc EXCEPT ![thread] = "running"]
    /\ snapshot_version_counter' = args[thread].loaded + 1
    /\ args' = [args EXCEPT ![thread].assigned = args[thread].loaded + 1]
    /\ UNCHANGED <<stored_tasks, stored_messages, conversation_parent_ids,
                   result, returned>>

\* steps 1 to 12: the Snapshot carries the counter as it is now
BuildSnapshot(thread) ==
    /\ pc[thread] = "running"
    /\ pc' = [pc EXCEPT ![thread] = "done"]
    /\ \E view_mode \in thread_view_modes(thread) :
          result' = [result EXCEPT ![thread] =
                        create_snapshot(stored_tasks, conversation_parent_ids,
                                        snapshot_version_counter, NoProject, view_mode)]
    /\ returned' = IF result'[thread].raised THEN returned
                   ELSE Append(returned, result'[thread].snapshot_version)
    /\ UNCHANGED <<snapshot_version_counter, stored_tasks, stored_messages,
                   conversation_parent_ids, args>>

NextThreads ==
    \E thread \in Threads :
        LoadCounter(thread) \/ StoreCounter(thread) \/ BuildSnapshot(thread)

SpecThreads == InitThreads /\ [][NextThreads]_vars

----------------------------------------------------------------------------
(* SpecOrder: one create_snapshot call, step by step, over a store with a  *)
(* design task (1001), a parent (1002) and its child, whose id is a plain  *)
(* Planka id (1003) or "1002_sub_01" (100201).  The call is for all        *)
(* projects or for project P1, whose board prefix 100 is the prefix of     *)
(* every id; the conversation log names the parent or nothing.             *)

DesignTaskId == 1001
ParentTaskId == 1002
ChildTaskIds == {1003, 100201}

OrderDeps == {<<>>, <<DesignTaskId>>}

InitOrder ==
    /\ NewAggregator
    /\ \E child_id \in ChildTaskIds, child_flag \in {"absent", "true"},
          parent_deps, child_deps \in OrderDeps, with_design \in BOOLEAN :
          stored_tasks =
              (IF with_design THEN << [BaseTask EXCEPT !.id = DesignTaskId] >> ELSE <<>>)
              \o << [BaseTask EXCEPT !.id = ParentTaskId,
                                     !.dependencies = parent_deps,
                                     !.dependency_ids = parent_deps],
                    [BaseTask EXCEPT !.id = child_id,
                                     !.parent_task_id = ParentTaskId,
                                     !.is_subtask = child_flag,
                                     !.dependencies = child_deps,
                                     !.dependency_ids = child_deps] >>
    /\ stored_messages = <<>>
    /\ conversation_parent_ids \in {{}, {ParentTaskId}}

\* step 1: the counter is incremented and _load_tasks returns raw_tasks
LoadRawTasks ==
    /\ pc = "idle"
    /\ pc' = "loaded"
    /\ snapshot_version_counter' = snapshot_version_counter + 1
    /\ \E project_id \in {NoProject, "P1"}, view_mode \in ViewModes :
          /\ args' = <<project_id, view_mode>>
          /\ result' = load_tasks(stored_tasks, conversation_parent_ids, project_id)
    /\ UNCHANGED <<stored_tasks, stored_messages, conversation_parent_ids, returned>>

\* step 2
InheritParentDependenciesStep ==
    /\ pc = "loaded"
    /\ pc' = "inherited"
    /\ result' = inherit_parent_dependencies_to_first_subtask(result)
    /\ UNCHANGED <<snapshot_version_counter, stored_tasks, stored_messages,
                   conversation_parent_ids, args, returned>>

\* step 3
FilterTasksByViewStep ==
    /\ pc = "inherited"
    /\ pc' = "filtered"
    /\ result' = filter_tasks_by_view(result, args[2])
    /\ UNCHANGED <<snapshot_version_counter, stored_tasks, stored_messages,
                   conversation_parent_ids, args, returned>>

\* steps 4 to 12: the Snapshot of the call
ReturnSnapshot ==
    /\ pc = "filtered"
    /\ pc' = "done"
    /\ result' = create_snapshot(stored_tasks, conversation_parent_ids,
                                 snapshot_version_counter, args[1], args[2])
    /\ returned' = IF result'.raised THEN returned
                   ELSE Append(returned, result'.snapshot_version)
    /\ UNCHANGED <<snapshot_version_counter, stored_tasks, stored_messages,
                   conversation_parent_ids, args>>

NextOrder ==
    LoadRawTasks \/ InheritParentDependenciesStep \/ FilterTasksByViewStep
        \/ ReturnSnapshot

SpecOrder == InitOrder /\ [][NextOrder]_vars

----------------------------------------------------------------------------
(* SpecWalk: the two recursive walks of _build_diagnostic_events, one      *)
(* call or return at a time.  args is the list of Task objects the method  *)
(* is called with.  result holds the locals of the method: the call stack  *)
(* (a frame holds the id being expanded, the path handed to has_cycle and  *)
(* the index k of the next entry of its dependency list), the sets the     *)
(* closures share (visited, rec_stack, reachable, visited_deps), the index *)
(* i of the loop over tasks and the index d of the loop over the direct    *)
(* dependencies.  A stack deeper than MaxDepth stands for a recursion that *)
(* does not end: no walk over MaxWalkTasks tasks that returns needs it.    *)

MaxDepth == MaxWalkTasks + 2

Frame(task_id, path) == [task_id |-> task_id, path |-> path, k |-> 1]

WalkerState(pc_, w) == [pc |-> pc_, w |-> w]

dependency_ids_of(tasks, task_id) == tasks[built_index(tasks, task_id)].dependency_ids

InitWalk ==
    /\ snapshot_version_counter = 0
    /\ returned = <<>>
    /\ pc = "idle"
    /\ result = <<>>
    /\ \E n \in 1..MaxWalkTasks : \E f \in [1..n -> DepChoices(n)] :
          stored_tasks = [i \in 1..n |-> TaskWithDeps(i, f[i])]
    /\ args = build_tasks(stored_tasks)
    /\ stored_messages = <<>>
    /\ conversation_parent_ids = {}

\* has_cycle(task_id, path) is called in state st
call_has_cycle(tasks, task_id, path, st) ==
    IF task_id \in st.w.rec_stack
    THEN IF task_id \in Range(path)
         THEN \* the cycle is returned through every frame; rec_stack is left as it is
              [st EXCEPT !.w.stack = <<>>]
         ELSE \* path.index(task_id) raises ValueError
              [st EXCEPT !.pc = "raised", !.w.stack = <<>>]
    ELSE IF task_id \in st.w.visited \/ built_index(tasks, task_id) = 0 THEN st
    ELSE IF Len(st.w.stack) >= MaxDepth THEN [st EXCEPT !.pc = "overflow"]
    ELSE [st EXCEPT !.w.stack = Append(@, Frame(task_id, Append(path, task_id))),
                    !.w.visited = @ \cup {task_id},
                    !.w.rec_stack = @ \cup {task_id}]

never_walked(dep_id, visited_deps) == FALSE

\* dep_id in visited_deps
already_walked(dep_id, visited_deps) == dep_id \in visited_deps

\* find_reachable(dep_id, visited_deps) is called in state st
call_find_reachable(tasks, dep_id, st) ==
    IF already_walked(dep_id, st.w.visited_deps) \/ built_index(tasks, dep_id) = 0 THEN st
    ELSE IF Len(st.w.stack) >= MaxDepth THEN [st EXCEPT !.pc = "overflow"]
    ELSE [st EXCEPT !.w.stack = Append(@, Frame(dep_id, <<>>)),
                    !.w.visited_deps = @ \cup {dep_id}]

\* the state with the top frame moved on to its next dependency
advanced(st) == [st EXCEPT !.w.stack[Len(st.w.stack)].k = @ + 1]

popped(st) == [st EXCEPT !.w.stack = SubSeq(@, 1, Len(@) - 1)]

StartDiagnostics ==
    /\ pc = "idle"
    /\ pc' = "cycles"
    /\ result' = [stack |-> <<>>, visited |-> {}, rec_stack |-> {}, reachable |-> {},
                  visited_deps |-> {}, i |-> 1, d |-> 1]
    /\ UNCHANGED <<snapshot_version_counter, stored_tasks, stored_messages,
                   conversation_parent_ids, returned, args>>

\* "for task in tasks: if task.id not in visited: has_cycle(task.id, [])"
CycleLoopStep ==
    /\ pc = "cycles"
    /\ result.stack = <<>>
    /\ LET tasks == args
           st == WalkerState(pc, [result EXCEPT !.i = @ + 1])
           next == IF result.i > Len(tasks)
                   THEN WalkerState("reachable", [result EXCEPT !.i = 1])
                   ELSE IF tasks[result.i].id \in result.visited THEN st
                   ELSE call_has_cycle(tasks, tasks[result.i].id, <<>>, st)
       IN pc' = next.pc /\ result' = next.w
    /\ UNCHANGED <<snapshot_version_counter, stored_tasks, stored_messages,
                   conversation_parent_ids, returned, args>>

\* the body of has_cycle for the frame on top of the stack
HasCycleStep ==
    /\ pc = "cycles"
    /\ result.stack # <<>>
    /\ LET tasks == args
           top == result.stack[Len(result.stack)]
           deps == dependency_ids_of(tasks, top.task_id)
           st == WalkerState(pc, result)
           next == IF top.k > Len(deps)
                   THEN [popped(st) EXCEPT !.w.rec_stack = @ \ {top.task_id}]
                   ELSE call_has_cycle(tasks, deps[top.k], top.path, advanced(st))
       IN pc' = next.pc /\ result' = next.w
    /\ UNCHANGED <<snapshot_version_counter, stored_tasks, stored_messages,
                   conversation_parent_ids, returned, args>>

\* "for task in tasks: ... for dep_id in task.dependency_ids:
\*  find_reachable(dep_id, set())"
ReachableLoopStep ==
    /\ pc = "reachable"
    /\ result.stack = <<>>
    /\ LET tasks == args
           next_task == WalkerState(pc, [result EXCEPT !.i = @ + 1, !.d = 1,
                                                       !.reachable = {}])
           next == IF result.i > Len(tasks) THEN WalkerState("done", result)
                   ELSE IF Len(tasks[result.i].dependency_ids) < 2 THEN next_task
                   ELSE IF result.d > Len(tasks[result.i].dependency_ids) THEN next_task
                   ELSE call_find_reachable(tasks, tasks[result.i].dependency_ids[result.d],
                            WalkerState(pc, [result EXCEPT !.d = @ + 1,
                                                           !.visited_deps = {}]))
       IN pc' = next.pc /\ result' = next.w
    /\ UNCHANGED <<snapshot_version_counter, stored_tasks, stored_messages,
                   conversation_parent_ids, returned, args>>

\* the body of find_reachable for the frame on top of the stack
FindReachableStep ==
    /\ pc = "reachable"
    /\ result.stack # <<>>
    /\ LET tasks == args
           top == result.stack[Len(result.stack)]
           deps == dependency_ids_of(tasks, top.task_id)
           st == WalkerState(pc, result)
           next == IF top.k > Len(deps) THEN popped(st)
                   ELSE call_find_reachable(tasks, deps[top.k],
                            [advanced(st) EXCEPT !.w.reachable = @ \cup {deps[top.k]}])
       IN pc' = next.pc /\ result' = next.w
    /\ UNCHANGED <<snapshot_version_counter, stored_tasks, stored_messages,
                   conversation_parent_ids, returned, args>>

NextWalk ==
    StartDiagnostics \/ CycleLoopStep \/ HasCycleStep \/ ReachableLoopStep
        \/ FindReachableStep

SpecWalk == InitWalk /\ [][NextWalk]_vars

\* one thread runs the walks and does not stop while it has a step to take
SpecWalkLive == SpecWalk /\ WF_vars(NextWalk)

----------------------------------------------------------------------------
(* SpecStamp: the datetimes create_snapshot puts on its tasks, messages    *)
(* and log events.  A datetime is a record of its instant and its tzinfo,  *)
(* "aware" or "naive"; the store holds one task record and one record of   *)
(* each log.                                                               *)

\* the tzinfo of the datetime that datetime.fromisoformat makes of the string
fromisoformat_tzinfo(ts_str) == IF ts_str % 2 = 1 THEN "naive" ELSE "aware"

\* the tzinfo left as fromisoformat gave it
tzinfo_as_written(ts_str) == fromisoformat_tzinfo(ts_str)

\* "if ts.tzinfo is None: ts = ts.replace(tzinfo=timezone.utc)"
parsed_tzinfo(ts_str) ==
    IF fromisoformat_tzinfo(ts_str) = "naive" THEN "aware" ELSE fromisoformat_tzinfo(ts_str)

\* the datetime _parse_timestamp returns, NoTime for None
parsed_datetime(ts_str) ==
    IF parse_timestamp(ts_str) = NoTime THEN NoTime
    ELSE [instant |-> parse_timestamp(ts_str), tzinfo |-> parsed_tzinfo(ts_str)]

\* datetime.now(timezone.utc)
utc_now == [instant |-> now, tzinfo |-> "aware"]

\* the created_at and updated_at of the Task that _build_tasks makes
stamped_task(task_data) ==
    LET created_at == task_data.created_at
        updated_at == IF task_data.updated_at = NoTs THEN task_data.created_at
                      ELSE task_data.updated_at
    IN [id |-> task_data.id,
        created_at |-> IF parse_timestamp(created_at) = NoTime THEN utc_now
                       ELSE parsed_datetime(created_at),
        updated_at |-> IF parse_timestamp(updated_at) = NoTime THEN utc_now
                       ELSE parsed_datetime(updated_at)]

\* the record becomes a Message or an Event: its task is in the snapshot or
\* it names no task, and its timestamp parses
record_is_built(record, task_ids) ==
    /\ record.task_id = NoId \/ record.task_id \in task_ids
    /\ parse_timestamp(record.timestamp) # NoTime

\* _build_messages and _build_events, to the id and the timestamp
stamped_records(records, task_ids) ==
    LET built == SelectSeq(records, LAMBDA record : record_is_built(record, task_ids))
    IN [i \in 1..Len(built) |->
          [id |-> built[i].id, timestamp |-> parsed_datetime(built[i].timestamp)]]

from_log(records, log) == SelectSeq(records, LAMBDA record : record.log = log)

\* the task a log record names: none, the stored task, a task not in the store
RecordTaskIds == {NoId, 1, 9}

InitStamp ==
    /\ NewAggregator
    /\ \E status \in {"pending", "done"}, created_at, updated_at \in Timestamps :
          stored_tasks = <<[id |-> 1, status |-> status,
                            created_at |-> created_at, updated_at |-> updated_at]>>
    /\ \E f \in [1..2 -> [task_id : RecordTaskIds,
                           timestamp : Timestamps]] :
          stored_messages = [i \in 1..2 |->
                               [id |-> i, log |-> IF i = 1 THEN "conversation" ELSE "events",
                                task_id |-> f[i].task_id, timestamp |-> f[i].timestamp]]
    /\ conversation_parent_ids = {}

\* create_snapshot, to the timestamps of the entities it returns
BuildEntities ==
    /\ pc = "idle"
    /\ pc' = "done"
    /\ args' = enrich_tasks_with_timing(stored_tasks)
    /\ LET tasks == [i \in 1..Len(args') |-> stamped_task(args'[i])]
           final_task_ids_set == {tasks[i].id : i \in DOMAIN tasks}
       IN result' = [tasks |-> tasks,
                     messages |-> stamped_records(from_log(stored_messages, "conversation"),
                                                  final_task_ids_set),
                     timeline_events |-> stamped_records(from_log(stored_messages, "events"),
                                                         final_task_ids_set)]
    /\ UNCHANGED <<snapshot_version_counter, stored_tasks, stored_messages,
                   conversation_parent_ids, returned>>

NextStamp == BuildEntities

SpecStamp == InitStamp /\ [][NextStamp]_vars

----------------------------------------------------------------------------
(* SpecCache: calls of _load_projects on one Aggregator while the clock    *)
(* advances and projects.json changes between the calls.  Times are whole  *)
(* seconds.  An Optional value is the empty set for None and a set of one  *)
(* element otherwise.  args holds the clock, the file and the two cache    *)
(* fields of the Aggregator, result the outcome of the last call, returned *)
(* the outcome of every call so far.                                       *)

MaxLoads == 3      \* _load_projects calls on one Aggregator

\* self._projects_cache_ttl
projects_cache_ttl == 60

\* projects.json: absent, not a JSON object, or an object with these keys
ProjectsFiles ==
    {[state |-> "missing", data |-> <<>>], [state |-> "corrupt", data |-> <<>>]} \cup
    {[state |-> "valid", data |-> data] :
        data \in {<<>>, <<"P1">>, <<"active_project", "P1">>, <<"P1", "P2">>}}

\* the seconds that pass before a call
Elapsed == {0, 1, projects_cache_ttl - 1, projects_cache_ttl}

\* "(now - self._projects_cache_time).total_seconds() <= self._projects_cache_ttl"
cache_is_fresh_at_ttl(projects_cache, projects_cache_time, call_time) ==
    /\ projects_cache # {}
    /\ projects_cache_time # {}
    /\ \A cached_at \in projects_cache_time : call_time - cached_at <= projects_cache_ttl

\* the test of the cache: both fields are set and the cache is younger than the ttl
cache_is_fresh(projects_cache, projects_cache_time, call_time) ==
    /\ projects_cache # {}
    /\ projects_cache_time # {}
    /\ \A cached_at \in projects_cache_time : call_time - cached_at < projects_cache_ttl

\* the entries of the file that are projects
projects_of(data) == SelectSeq(data, LAMBDA key : key # "active_project")

\* _load_projects: the value returned, whether the file was opened, and the
\* cache fields after the call
load_projects(projects_cache, projects_cache_time, call_time, projects_file) ==
    IF cache_is_fresh(projects_cache, projects_cache_time, call_time)
    THEN [value |-> CHOOSE projects \in projects_cache : TRUE, outcome |-> "cached",
          projects_cache |-> projects_cache, projects_cache_time |-> projects_cache_time]
    ELSE IF projects_file.state = "missing"
    THEN [value |-> <<>>, outcome |-> "missing",
          projects_cache |-> projects_cache, projects_cache_time |-> projects_cache_time]
    ELSE IF projects_file.state = "corrupt"
    THEN [value |-> <<>>, outcome |-> "failed",
          projects_cache |-> projects_cache, projects_cache_time |-> projects_cache_time]
    ELSE [value |-> projects_of(projects_file.data), outcome |-> "loaded",
          projects_cache |-> {projects_of(projects_file.data)},
          projects_cache_time |-> {call_time}]

InitCache ==
    /\ snapshot_version_counter = 0
    /\ stored_tasks = <<>>
    /\ stored_messages = <<>>
    /\ conversation_parent_ids = {}
    /\ pc = "idle"
    /\ \E projects_file \in ProjectsFiles :
          args = [clock |-> 0, projects_file |-> projects_file,
                  projects_cache |-> {}, projects_cache_time |-> {}]
    /\ result = <<>>
    /\ returned = <<>>

\* some seconds pass, the file is rewritten or not, and _load_projects is called
LoadProjects ==
    /\ Len(returned) < MaxLoads
    /\ \E elapsed \in Elapsed, projects_file \in ProjectsFiles :
          LET call_time == args.clock + elapsed
              call == load_projects(args.projects_cache, args.projects_cache_time,
                                    call_time, projects_file)
          IN /\ args' = [clock |-> call_time, projects_file |-> projects_file,
                         projects_cache |-> call.projects_cache,
                         projects_cache_time |-> call.projects_cache_time]
             /\ result' = [value |-> call.value, outcome |-> call.outcome]
             /\ returned' = Append(returned,
                                   [call_time |-> call_time, value |-> call.value,
                                    outcome |-> call.outcome,
                                    cache_before |-> <<args.projects_cache,
                                                       args.projects_cache_time>>,
                                    cache_after |-> <<call.projects_cache,
                                                      call.projects_cache_time>>])
    /\ pc' = "done"
    /\ UNCHANGED <<snapshot_version_counter, stored_tasks, stored_messages,
                   conversation_parent_ids>>

NextCache == LoadProjects

SpecCache == InitCache /\ [][NextCache]_vars

----------------------------------------------------------------------------
(* SpecFilter: create_snapshot over the stores of SpecInclude, for no      *)
(* project, for P1, for P2 (no usable Planka id) and for a project id that *)
(* projects.json does not hold.                                            *)

RequestedProjects == {NoProject, "P1", "P2", "P9"}

CreateSnapshotOfProject ==
    /\ pc = "idle"
    /\ pc' = "done"
    /\ snapshot_version_counter' = snapshot_version_counter + 1
    /\ \E project_id \in RequestedProjects, view_mode \in ViewModes :
          /\ args' = <<project_id, view_mode>>
          /\ result' = create_snapshot(stored_tasks, conversation_parent_ids,
                                       snapshot_version_counter', project_id, view_mode)
    /\ returned' = IF result'.raised THEN returned
                   ELSE Append(returned, result'.snapshot_version)
    /\ UNCHANGED <<stored_tasks, stored_messages, conversation_parent_ids>>

NextFilter == CreateSnapshotOfProject

SpecFilter == InitInclude /\ [][NextFilter]_vars

----------------------------------------------------------------------------
(* Properties of create_snapshot (Spec)                                    *)

\* C1: create_snapshot returns a Snapshot and raises no exception, whatever
\* the task records and dependency lists are (cycles, self-dependencies,
\* dangling ids, tasks that depend on a member of a cycle).
C1_CreateSnapshotNeverRaises ==
    pc = "done" => ~result.raised

\* C2: of the snapshots returned by calls made one after another on one
\* Aggregator, each has a snapshot_version strictly greater than that of
\* every snapshot returned before it, whether or not an earlier call raised.
C2_VersionsStrictlyIncrease ==
    \A i, j \in DOMAIN returned : i < j => returned[i] < returned[j]

\* two snapshots were returned after a first call that raised
C2_TwoReturnedAfterARaise ==
    /\ Len(returned) >= 2
    /\ returned[1] > 1

snapshot_task_ids == {result.tasks[i].id : i \in DOMAIN result.tasks}

\* C10 as stated: every numeric dependency id D of every task T of a
\* snapshot is a key of task_dependency_graph.
C10_EveryDependencyIsAKey ==
    (pc = "done" /\ ~result.raised) =>
        \A i \in DOMAIN result.tasks : \A k \in DOMAIN result.tasks[i].dependency_ids :
            result.tasks[i].dependency_ids[k] > 0
                => result.tasks[i].dependency_ids[k] \in DOMAIN result.task_dependency_graph

\* C10 amended: the keys of task_dependency_graph are the ids of the
\* snapshot's tasks, and the list under the key of a task T holds every
\* dependency id of T and every dependency id T has in the store, whether or
\* not that id names a task of the snapshot.
C10_DependenciesKeptInValues ==
    (pc = "done" /\ ~result.raised) =>
        /\ DOMAIN result.task_dependency_graph = snapshot_task_ids
        /\ \A i \in DOMAIN result.tasks :
              LET T == result.tasks[i]
                  stored == stored_tasks[task_index(stored_tasks, T.id)]
              IN /\ result.task_dependency_graph[T.id] = T.dependency_ids
                 /\ Range(stored.dependencies) \subseteq Range(result.task_dependency_graph[T.id])

\* a task of the snapshot depends on a stored task that the view filtered
\* out, and the graph lists that id under the task's key
C10_EdgeToFilteredTask ==
    /\ pc = "done"
    /\ ~result.raised
    /\ \E i \in DOMAIN result.tasks : \E D \in Range(result.tasks[i].dependency_ids) :
          /\ task_index(stored_tasks, D) # 0
          /\ D \notin snapshot_task_ids
          /\ D \in Range(result.task_dependency_graph[result.tasks[i].id])

----------------------------------------------------------------------------
(* Properties of the project filter (SpecLoad)                             *)

\* the task's id prefix is within the tolerance of a prefix of project P1
in_project_range(task) ==
    \E target \in {100, 150} :
        id_prefix(task.id) - target <= 20 /\ target - id_prefix(task.id) <= 20

\* C3: with the id of a project whose correlation ids are valid, _load_tasks
\* returns every stored task whose id prefix is within 20 of a prefix of the
\* project, top-level tasks without children included.
C3_LoadReturnsEveryTaskInRange ==
    pc = "loaded" =>
        \A i \in DOMAIN stored_tasks :
            in_project_range(stored_tasks[i])
                => \E k \in DOMAIN result : result[k].id = stored_tasks[i].id

\* C4: create_snapshot in the subtasks view with a project filter returns a
\* non-empty task list whenever the store holds a pending or in-progress
\* task in the project's id range.
C4_SnapshotOfPendingProjectNotEmpty ==
    (/\ pc = "done"
     /\ \E i \in DOMAIN stored_tasks :
           /\ in_project_range(stored_tasks[i])
           /\ stored_tasks[i].status \in {"pending", "in-progress"})
        => (~result.raised /\ result.tasks # <<>>)

----------------------------------------------------------------------------
(* Properties of _filter_tasks_by_view (SpecView)                          *)

\* C5: in subtasks mode the result is, in input order, the tasks that have
\* a parent_task_id together with the parentless tasks whose id is the
\* parent_task_id of no input task; no parentless task with a child in the
\* input is returned.
C5_SubtasksViewKeepsChildrenAndStandalone ==
    (pc = "done" /\ args[2] = "subtasks") =>
        LET tasks == args[1]
            has_child(i) == \E j \in DOMAIN tasks : tasks[j].parent_task_id = tasks[i].id
            kept == Ascending({i \in DOMAIN tasks :
                                  tasks[i].parent_task_id # NoId \/ ~has_child(i)})
        IN /\ result = [k \in 1..Len(kept) |-> tasks[kept[k]]]
           /\ \A i \in DOMAIN tasks :
                 (tasks[i].parent_task_id = NoId /\ has_child(i))
                     => \A k \in DOMAIN result : result[k] # tasks[i]

\* the subtasks view dropped a parent and kept a child and a parentless
\* task without children
C5_ParentDroppedStandaloneKept ==
    /\ pc = "done"
    /\ args[2] = "subtasks"
    /\ Len(result) < Len(args[1])
    /\ \E k \in DOMAIN result : result[k].parent_task_id = NoId
    /\ \E k \in DOMAIN result : result[k].parent_task_id # NoId

----------------------------------------------------------------------------
(* Properties of _calculate_synthetic_start_times (SpecStart)              *)

\* the end time of a task as the claim words it: completed_at, else
\* updated_at, else created_at, each counted when the field is present
known_end_time(task) ==
    LET present == SelectSeq(<<task.completed_at, task.updated_at, task.created_at>>,
                             LAMBDA ts : ts # NoTs)
    IN IF present = <<>> THEN NoTime ELSE parse_timestamp(present[1])

\* the known end times of the dependencies of the task at index i of tasks
known_dependency_ends(tasks, i) ==
    {known_end_time(tasks[d]) :
        d \in {j \in DOMAIN tasks : tasks[j].id \in Range(tasks[i].dependencies)}} \ {NoTime}

\* C6: after the start-time correction, a task with at least one dependency
\* whose end time is known starts at the latest such end time if it had no
\* started_at or an earlier one, and keeps its started_at otherwise; a task
\* with no such dependency is unchanged; no other field changes.
C6_StartIsLatestDependencyEnd ==
    pc = "done" =>
        /\ Len(result) = Len(args)
        /\ \A i \in DOMAIN args :
              LET ends == known_dependency_ends(args, i)
                  start == parse_timestamp(args[i].started_at)
              IN IF ends # {} /\ (\/ args[i].started_at = NoTs
                                  \/ (start # NoTime /\ start < Max(ends)))
                 THEN result[i] = [args[i] EXCEPT !.started_at = isoformat(Max(ends))]
                 ELSE result[i] = args[i]

\* task 3 started before the later of two different dependency end times,
\* one of them read from updated_at or created_at, and was moved to it
C6_StartMovedToLaterDependency ==
    /\ pc = "done"
    /\ args[3].started_at # NoTs
    /\ args[1].completed_at = NoTs
    /\ Cardinality(known_dependency_ends(args, 3)) = 2
    /\ result[3].started_at # args[3].started_at
    /\ parse_timestamp(result[3].started_at) = known_end_time(args[1])

----------------------------------------------------------------------------
(* Properties of the redundant-dependency diagnostics (SpecDiag)           *)

\* the ids one dependency edge away from a task whose id is in S
edge_targets(tasks, S) ==
    UNION {Range(tasks[i].dependency_ids) : i \in {j \in DOMAIN tasks : tasks[j].id \in S}}

RECURSIVE edge_closure(_, _)
edge_closure(tasks, S) ==
    IF edge_targets(tasks, S) \subseteq S THEN S
    ELSE edge_closure(tasks, S \cup edge_targets(tasks, S))

\* the ids reachable through one or more edges from a direct dependency of X
reachable_from_dependencies(tasks, X) ==
    edge_closure(tasks, edge_targets(tasks, Range(X.dependency_ids)))

redundant_event_count(events, task_id, dep_id) ==
    Cardinality({k \in DOMAIN events :
                    /\ events[k].event_type = "diagnostic:redundant_dependency"
                    /\ events[k].task_id = task_id
                    /\ events[k].redundant_dependency_id = dep_id})

\* C7: for every visible task X with at least two direct dependencies the
\* diagnostics hold exactly one redundant_dependency event for each direct
\* dependency Z of X, itself a visible task, that is reachable through one
\* or more edges from a direct dependency of X, and no such event for any
\* other pair of visible tasks.
C7_OneEventPerRedundantDependency ==
    pc = "done" =>
        \A i, z \in DOMAIN args :
            redundant_event_count(result.events, args[i].id, args[z].id)
                = IF /\ Len(args[i].dependency_ids) >= 2
                     /\ args[z].id \in Range(args[i].dependency_ids)
                     /\ args[z].id \in reachable_from_dependencies(args, args[i])
                  THEN 1 ELSE 0

----------------------------------------------------------------------------
(* Properties of the parent-dependency inheritance (SpecInherit)           *)

\* the indexes of the children of the task at index p
children_of(tasks, p) == {c \in DOMAIN tasks : tasks[c].parent_task_id = tasks[p].id}

no_duplicates(seq) == \A i, j \in DOMAIN seq : seq[i] = seq[j] => i = j

\* C8: a parent is a top-level task that has children.  When the parent has
\* dependencies and exactly one child C without dependencies, C's list
\* afterwards holds every dependency of the parent and no duplicate, and the
\* siblings of C and the parent are unchanged; when no child of the parent
\* is free of dependencies, the parent and its children are unchanged.
C8_FirstSubtaskInheritsParentDependencies ==
    pc = "done" =>
        /\ Len(result) = Len(args)
        /\ \A p \in DOMAIN args :
              (args[p].parent_task_id = NoId /\ children_of(args, p) # {}) =>
                  LET free == {c \in children_of(args, p) : args[c].dependencies = <<>>}
                  IN /\ (args[p].dependencies # <<>> /\ Cardinality(free) = 1) =>
                          /\ \A c \in free :
                                /\ Range(args[p].dependencies) \subseteq Range(result[c].dependencies)
                                /\ no_duplicates(result[c].dependencies)
                          /\ \A c \in children_of(args, p) \ free : result[c] = args[c]
                          /\ result[p] = args[p]
                     /\ free = {} =>
                          /\ \A c \in children_of(args, p) : result[c] = args[c]
                          /\ result[p] = args[p]

\* a parent that lists one dependency twice has one child without
\* dependencies and one with, and the first has inherited
C8_OnlyFreeChildInherited ==
    /\ pc = "done"
    /\ \E p \in DOMAIN args :
          /\ args[p].parent_task_id = NoId
          /\ ~no_duplicates(args[p].dependencies)
          /\ \E c, d \in children_of(args, p) :
                /\ args[c].dependencies = <<>>
                /\ args[d].dependencies # <<>>
                /\ result[c].dependencies # <<>>

----------------------------------------------------------------------------
(* Properties of _detect_duplicates (SpecDup)                              *)

\* the indexes of the messages that carry the group id g
group_members(messages, g) == {m \in DOMAIN messages : messages[m].duplicate_group_id = g}

\* C9: among the messages that share a duplicate_group_id exactly one, with
\* the earliest timestamp of the set, has is_duplicate false and the others
\* have it true; the duplicate_count of every member is the size of the
\* set, at least 2; a message without a group keeps is_duplicate false, no
\* group id and duplicate_count 0.
C9_OneOriginalPerDuplicateGroup ==
    pc = "done" =>
        /\ Len(result) = Len(args)
        /\ \A m \in DOMAIN result :
              IF result[m].duplicate_group_id = 0
              THEN result[m] = args[m]
              ELSE LET members == group_members(result, result[m].duplicate_group_id)
                       originals == {o \in members : ~result[o].is_duplicate}
                   IN /\ Cardinality(members) >= 2
                      /\ result[m].duplicate_count = Cardinality(members)
                      /\ Cardinality(originals) = 1
                      /\ \A o \in originals : \A x \in members :
                            result[o].timestamp <= result[x].timestamp

\* a group was marked whose original comes after a duplicate in the input,
\* and a message with the same key stayed outside the group
C9_GroupWithLateOriginalAndOutsider ==
    /\ pc = "done"
    /\ \E a, b, c \in DOMAIN result :
          /\ result[a].duplicate_group_id # 0
          /\ result[b].duplicate_group_id = result[a].duplicate_group_id
          /\ ~result[a].is_duplicate
          /\ result[b].is_duplicate
          /\ b < a
          /\ result[c].duplicate_group_id = 0
          /\ result[c].key = result[a].key

----------------------------------------------------------------------------
(* Properties of the timeline positions (SpecTimeline, SpecScale)          *)

\* 0 <= v <= 1 and 0 < v < 1 for a float v >= 0 kept as a root of num/den
in_unit_interval(v) == v.num >= 0 /\ v.num <= v.den
strictly_inside(v) == v.num > 0 /\ v.num < v.den
is_zero(v) == v.num = 0
is_one(v) == v.num = v.den
above_one(v) == v.num > v.den

\* C11: every task of every snapshot has its linear and its scaled timeline
\* position within [0, 1], whatever the origin of its start time.
C11_PositionsWithinUnitInterval ==
    pc = "done" =>
        \A i \in DOMAIN result :
            /\ in_unit_interval(result[i].timeline_linear_position)
            /\ in_unit_interval(result[i].timeline_scaled_position)

----------------------------------------------------------------------------
(* Properties of the parallelization metrics (SpecParallel)                *)

\* C13: parallelization_efficiency lies in [0.0, 1.0] for every set of
\* task intervals: the empty set, sets whose durations are all non-positive
\* (efficiency 0), and sets with a task of positive duration.
C13_EfficiencyWithinUnitInterval ==
    pc = "done" =>
        /\ in_unit_interval(result.parallelization_efficiency)
        /\ (\A i \in DOMAIN args : args[i].updated_at <= args[i].created_at)
               => is_zero(result.parallelization_efficiency)

\* two tasks that overlap and one of negative duration: efficiency 3/4
C13_OverlapWithNegativeDuration ==
    /\ pc = "done"
    /\ \E i \in DOMAIN args : args[i].updated_at < args[i].created_at
    /\ result.peak_parallel_tasks = 2
    /\ result.parallelization_efficiency = Fraction(3, 4)

----------------------------------------------------------------------------
(* Properties of the 'parents' view (SpecView)                             *)

\* C14: in 'parents' mode _filter_tasks_by_view returns exactly the tasks
\* that have no parent_task_id and excludes every task that has one,
\* whatever the is_subtask flag.
C14_ParentsViewKeepsExactlyParentless ==
    (pc = "done" /\ args[2] = "parents") =>
        result = SelectSeq(args[1], LAMBDA t : t.parent_task_id = NoId)

\* C14 as the code has it: in 'parents' mode the result is, in order, the
\* tasks whose is_subtask flag is false and the tasks without the flag that
\* have no parent_task_id; a task flagged true is excluded even without a
\* parent, a task flagged false is kept even with one.
C14_ParentsViewFollowsFlagThenParent ==
    (pc = "done" /\ args[2] = "parents") =>
        /\ result = SelectSeq(args[1],
                         LAMBDA t : \/ t.is_subtask = "false"
                                    \/ t.is_subtask = "absent" /\ t.parent_task_id = NoId)
        /\ \A i \in DOMAIN args[1] :
              args[1][i].is_subtask = "absent" =>
                  ((\E k \in DOMAIN result : result[k] = args[1][i])
                      <=> args[1][i].parent_task_id = NoId)

\* a child without the flag is excluded, a child flagged false is kept
C14_UnflaggedChildDroppedFlaggedFalseKept ==
    /\ pc = "done"
    /\ args[2] = "parents"
    /\ Len(args[1]) = 3
    /\ args[1][2].parent_task_id = 1 /\ args[1][2].is_subtask = "absent"
    /\ args[1][3].parent_task_id = 1 /\ args[1][3].is_subtask = "false"
    /\ args[1][1].parent_task_id = NoId /\ args[1][1].is_subtask = "absent"
    /\ result = <<args[1][1], args[1][3]>>

----------------------------------------------------------------------------
(* Properties of slug resolution (SpecSlug)                                *)

all_numeric(tasks) ==
    \A i \in DOMAIN tasks : \A k \in DOMAIN tasks[i].dependencies :
        tasks[i].dependencies[k] > 0

\* C15: slug resolution over a task list whose dependency entries are all
\* purely numeric strings leaves every dependency list unchanged, so the
\* second application returns what the first returned.
C15_NumericListsUnchangedAndIdempotent ==
    all_numeric(stored_tasks) =>
        /\ Len(returned) >= 1 => returned[1] = stored_tasks
        /\ Len(returned) >= 2 => returned[2] = returned[1]

\* resolved twice: task 1 depends on the digit strings 9 and 1 while task 2
\* carries the name whose slug is 1
C15_NumericListResolvedTwice ==
    /\ pc = "twice"
    /\ Len(stored_tasks) = 2
    /\ stored_tasks[1].dependencies = <<9, 1>>
    /\ stored_tasks[2].dependencies = <<1>>
    /\ stored_tasks[2].name = 1
    /\ returned = <<stored_tasks, stored_tasks>>

----------------------------------------------------------------------------
(* Properties of ProjectMatcher (SpecMatch)                                *)

\* the text before the first underscore, and what "parses as a number" means
leading_token(str) ==
    IF \E k \in DOMAIN str : str[k] = "_"
    THEN SubSeq(str, 1, (CHOOSE k \in DOMAIN str :
                            /\ str[k] = "_"
                            /\ \A j \in 1..(k - 1) : str[j] # "_") - 1)
    ELSE str

exact_rule(task_id, project_id) ==
    \/ task_id = project_id
    \/ /\ Len(task_id) > Len(project_id)
       /\ \A k \in DOMAIN project_id : task_id[k] = project_id[k]
       /\ task_id[Len(project_id) + 1] = "_"

\* C16: the 'fuzzy' strategy returns true exactly when the leading numeric
\* token of the task id and the numeric project id differ by at most the
\* tolerance; when one of them does not parse it returns what the 'exact'
\* rule returns; no exception escapes.
C16_FuzzyIsToleranceOrExactFallback ==
    (pc = "done" /\ args[4] = "fuzzy") =>
        LET matcher_tolerance == args[1]
            task_id == args[2]
            project_id == args[3]
            token == leading_token(task_id)
        IN /\ ~result.raised
           /\ (int_accepts(token) /\ int_accepts(project_id)) =>
                 (result.value <=>
                     /\ int_of(token) - int_of(project_id) <= matcher_tolerance
                     /\ int_of(project_id) - int_of(token) <= matcher_tolerance)
           /\ ~(int_accepts(token) /\ int_accepts(project_id)) =>
                 (result.value <=> exact_rule(task_id, project_id))

\* task 01_x against project 1 with tolerance 0: the numbers agree, the
\* strings do not
C16_FuzzyMatchesWhereExactWouldNot ==
    /\ pc = "done"
    /\ args[4] = "fuzzy"
    /\ args[1] = 0
    /\ args[2] = <<"0", "1", "_">>
    /\ args[3] = <<"1">>
    /\ result.value

\* task x_1 against project x: no number to parse, the exact rule answers
C16_FallbackToExactRule ==
    /\ pc = "done"
    /\ args[4] = "fuzzy"
    /\ args[2] = <<"x", "_", "1">>
    /\ args[3] = <<"x">>
    /\ result.value

----------------------------------------------------------------------------
(* Properties of the circular-dependency diagnostics (SpecDiag)            *)

\* the visible task with this id lies on a directed cycle of dependency edges
on_cycle(tasks, id) == id \in edge_closure(tasks, edge_targets(tasks, {id}))

graph_has_cycle(tasks) == \E i \in DOMAIN tasks : on_cycle(tasks, tasks[i].id)

reported_cycles(events) ==
    {events[k].cycle : k \in {j \in DOMAIN events :
                                 events[j].event_type = "diagnostic:circular_dependency"}}

circular_event_count(events, nodes) ==
    Cardinality({k \in DOMAIN events :
                    /\ events[k].event_type = "diagnostic:circular_dependency"
                    /\ Range(events[k].cycle) = nodes})

\* a closed walk along dependency edges of visible tasks
is_real_cycle(tasks, cycle) ==
    /\ Len(cycle) >= 2
    /\ cycle[1] = cycle[Len(cycle)]
    /\ \A k \in 1..(Len(cycle) - 1) :
          \E i \in DOMAIN tasks :
              tasks[i].id = cycle[k] /\ cycle[k + 1] \in Range(tasks[i].dependency_ids)

\* C17: the diagnostics hold a circular_dependency event if and only if the
\* dependency graph over the visible tasks has a directed cycle; every
\* reported cycle is a real cycle of dependency edges; no two events report
\* cycles with the same set of nodes.
C17_CircularEventIffCycle ==
    pc = "done" =>
        /\ (reported_cycles(result.events) # {}) <=> graph_has_cycle(args)
        /\ \A cycle \in reported_cycles(result.events) :
              /\ is_real_cycle(args, cycle)
              /\ circular_event_count(result.events, Range(cycle)) = 1

----------------------------------------------------------------------------
(* Properties of interleaved create_snapshot calls (SpecThreads)           *)

snapshot_returned(thread) == pc[thread] = "done" /\ ~result[thread].raised

\* C18: two create_snapshot calls that interleave on one Aggregator return
\* snapshots with different snapshot_version values, each the counter value
\* its own call assigned.
C18_InterleavedVersionsDistinctAndOwn ==
    \A t, u \in Threads :
        (snapshot_returned(t) /\ snapshot_returned(u) /\ t # u) =>
            /\ result[t].snapshot_version # result[u].snapshot_version
            /\ result[t].snapshot_version = args[t].assigned

----------------------------------------------------------------------------
(* Properties of the order of the pipeline steps (SpecOrder)               *)

\* the stored record with this id, as a one-element or empty set
stored_with_id(id) == {stored_tasks[i] : i \in {j \in DOMAIN stored_tasks :
                                                   stored_tasks[j].id = id}}

ids_in(tasks) == {tasks[k].id : k \in DOMAIN tasks}

\* C19: inheritance runs while every parent that owns a retained child is
\* still in the task list (no step before it removes a parent), so a
\* retained child that had no dependencies of its own holds its parent's
\* dependencies once inheritance has run.
C19_ParentPresentWhenInheritanceRuns ==
    pc \in {"loaded", "inherited", "filtered"} =>
        \A k \in DOMAIN result :
            \A parent \in stored_with_id(result[k].parent_task_id) :
                /\ pc = "loaded" => parent.id \in ids_in(result)
                /\ (/\ pc \in {"inherited", "filtered"}
                    /\ \A child \in stored_with_id(result[k].id) :
                          child.dependencies = <<>>)
                      => Range(parent.dependencies) \subseteq Range(result[k].dependencies)

----------------------------------------------------------------------------
(* Properties of the walks of the diagnostics (SpecWalk, SpecWalkLive)     *)

\* the walks are over: both returned, or the cycle search raised
walks_terminated == pc \in {"done", "raised"}

\* C20: on every finite dependency graph, with self-dependencies, cycles
\* and dangling ids, the cycle-detection search and the reachability walk
\* both come to an end.
C20_WalksTerminate == <>walks_terminated

\* both walks returned on a graph with the cycle 1 -> 2 -> 1, the
\* self-dependency of 2 and the dangling id 3
C20_BothWalksReturnedOnCyclicGraph ==
    /\ pc = "done"
    /\ Len(stored_tasks) = 2
    /\ stored_tasks[1].dependencies = <<2, 3>>
    /\ stored_tasks[2].dependencies = <<1, 2>>
    /\ result.visited = {1, 2}

----------------------------------------------------------------------------
(* Properties of the sweep of _detect_duplicates (SpecDup)                 *)

\* a and b have the same key and follow each other in timestamp order
adjacent_in_group(messages, a, b) ==
    /\ a # b
    /\ messages[a].key = messages[b].key
    /\ messages[a].timestamp <= messages[b].timestamp
    /\ ~\E c \in DOMAIN messages :
          /\ messages[c].key = messages[a].key
          /\ messages[a].timestamp < messages[c].timestamp
          /\ messages[c].timestamp < messages[b].timestamp

same_cluster(messages, a, b) ==
    /\ messages[a].duplicate_group_id # 0
    /\ messages[a].duplicate_group_id = messages[b].duplicate_group_id

seconds_apart(messages, a, b) == messages[b].timestamp - messages[a].timestamp

\* the timestamp of the earliest message of the cluster of a
cluster_start(messages, a) ==
    Min({messages[m].timestamp : m \in group_members(messages, messages[a].duplicate_group_id)})

\* C21 (as stated): two messages of one key group that are adjacent in
\* timestamp order are in the same duplicate cluster when they are at most
\* 2 seconds apart and in different clusters when they are further apart.
C21_AdjacentWithinThresholdShareCluster ==
    pc = "done" =>
        \A a, b \in DOMAIN result :
            adjacent_in_group(result, a, b) =>
                (same_cluster(result, a, b)
                    <=> seconds_apart(result, a, b) <= time_threshold_seconds)

\* C21 (amended): a cluster is the window of 2 seconds that opens at its
\* earliest message.  Of two adjacent messages of one key group at most 2
\* seconds apart the earlier one is in a cluster, and the later one is in
\* the same cluster exactly when it is at most 2 seconds after the earliest
\* message of that cluster; adjacent messages more than 2 seconds apart are
\* never in the same cluster.
C21_ClusterIsWindowOfItsEarliestMessage ==
    pc = "done" =>
        \A a, b \in DOMAIN result :
            adjacent_in_group(result, a, b) =>
                IF seconds_apart(result, a, b) <= time_threshold_seconds
                THEN /\ result[a].duplicate_group_id # 0
                     /\ same_cluster(result, a, b)
                            <=> result[b].timestamp - cluster_start(result, a)
                                   <= time_threshold_seconds
                ELSE ~same_cluster(result, a, b)

\* messages of one key at seconds 0, 2 and 4: the first two form a cluster,
\* the third, 2 seconds after the second, stays outside it
C21_ThirdMessageOutsideWindow ==
    /\ pc = "done"
    /\ \E a, b, c \in DOMAIN result :
          /\ result[a].timestamp = 0 /\ result[b].timestamp = 2 /\ result[c].timestamp = 4
          /\ result[a].key = result[b].key /\ result[b].key = result[c].key
          /\ same_cluster(result, a, b)
          /\ result[c].duplicate_group_id = 0

----------------------------------------------------------------------------
(* Properties of the bottleneck pass (SpecDiag)                            *)

\* the positions of the tasks other than the one with this id that list it
\* as a dependency
blocked_by(tasks, id) ==
    {i \in DOMAIN tasks : tasks[i].id # id /\ id \in Range(tasks[i].dependency_ids)}

bottleneck_events_of(events, id) ==
    {k \in DOMAIN events : events[k].event_type = "diagnostic:bottleneck"
                              /\ events[k].task_id = id}

\* C22: when the diagnostics return, a bottleneck event exists for a visible
\* task exactly when the task is not done and at least three other tasks
\* list it as a dependency, and its blocks_count is the number of those
\* tasks.
C22_BottleneckCountsBlockedTasks ==
    pc = "done" /\ ~result.raised =>
        \A i \in DOMAIN args :
            LET blocked == Cardinality(blocked_by(args, args[i].id))
                reported == bottleneck_events_of(result.events, args[i].id)
            IN /\ (reported # {}) <=> (args[i].status # "done" /\ blocked >= 3)
               /\ \A k \in reported : result.events[k].blocks_count = blocked

----------------------------------------------------------------------------
(* Properties of the second pass of the project filter (SpecInclude)       *)

\* the tasks the first pass of the filter of P1 keeps
matched_tasks(all_tasks) ==
    {i \in DOMAIN all_tasks :
        matches_project(all_tasks[i], target_prefixes_of(projects_data[project_info_of("P1")]))}

\* ids in front of "_sub_" in the ids of the matched tasks
derived_parent_ids(all_tasks) ==
    {sub_parent_id(all_tasks[i].id) : i \in matched_tasks(all_tasks)} \ {NoId}

\* dependency ids of the matched tasks
matched_dependency_ids(all_tasks) ==
    UNION {Range(all_tasks[i].dependency_ids) : i \in matched_tasks(all_tasks)}

parent_returned(tasks, id) ==
    \E r \in DOMAIN tasks : tasks[r].id = id /\ is_parent_task(tasks[r])

----------------------------------------------------------------------------
(* Properties of slug resolution at loading (SpecNamed)                    *)

\* the ids of the loaded tasks whose name has this slug
ids_named(tasks, slug) ==
    {tasks[i].id : i \in {j \in DOMAIN tasks : tasks[j].name # 0 /\ slug_of(tasks[j].name) = slug}}

\* the entry after loading answers the stored entry
entry_resolved(tasks, stored_entry, loaded_entry) ==
    IF stored_entry < 0 /\ ids_named(tasks, -stored_entry) # {}
    THEN loaded_entry \in ids_named(tasks, -stored_entry)
    ELSE loaded_entry = stored_entry

\* C24: after loading, with a project id or without, every dependency entry
\* that is a slug of the name of a loaded task is the id of such a task, and
\* every other entry is the stored entry.
C24_SlugEntriesResolvedAfterLoading ==
    pc = "loaded" =>
        \A r \in DOMAIN result : \A i \in DOMAIN stored_tasks :
            result[r].id = stored_tasks[i].id =>
                /\ Len(result[r].dependencies) = Len(stored_tasks[i].dependencies)
                /\ \A k \in DOMAIN stored_tasks[i].dependencies :
                      entry_resolved(result, stored_tasks[i].dependencies[k],
                                     result[r].dependencies[k])

----------------------------------------------------------------------------
(* Properties of the reverse pass of _build_tasks (Spec)                   *)

\* the entries (task, position) of the dependency lists that name a task of
\* the list
resolved_entries(tasks) ==
    UNION {{<<t, k>> : k \in {j \in DOMAIN tasks[t].dependency_ids :
                                \E d \in DOMAIN tasks : tasks[d].id = tasks[t].dependency_ids[j]}}
           : t \in DOMAIN tasks}

\* the entries (task, position) of the dependent_task_ids lists
back_references(tasks) ==
    UNION {{<<d, k>> : k \in DOMAIN tasks[d].dependent_task_ids} : d \in DOMAIN tasks}

\* C25: for all tasks T and D of a snapshot, T's id is in
\* D.dependent_task_ids if and only if D's id is in T.dependency_ids; the
\* back-references are ids of tasks of the snapshot, one for every dependency
\* entry that names a task of the snapshot, so an entry that names none adds
\* no back-reference.
C25_DependentsMirrorDependencies ==
    (pc = "done" /\ ~result.raised) =>
        /\ \A t, d \in DOMAIN result.tasks :
              result.tasks[t].id \in Range(result.tasks[d].dependent_task_ids)
                  <=> result.tasks[d].id \in Range(result.tasks[t].dependency_ids)
        /\ \A d \in DOMAIN result.tasks :
              Range(result.tasks[d].dependent_task_ids) \subseteq snapshot_task_ids
        /\ Cardinality(back_references(result.tasks))
              = Cardinality(resolved_entries(result.tasks))

\* a snapshot in which one task has a back-reference and another task
\* depends on an id that names no task of the snapshot
C25_BackReferenceAndDanglingDependency ==
    /\ pc = "done"
    /\ ~result.raised
    /\ \E d \in DOMAIN result.tasks : result.tasks[d].dependent_task_ids # <<>>
    /\ \E t \in DOMAIN result.tasks :
          /\ result.tasks[t].dependency_ids # <<>>
          /\ Range(result.tasks[t].dependency_ids) \cap snapshot_task_ids = {}

----------------------------------------------------------------------------
(* Properties of parallelization_efficiency on equal tasks (SpecParallel)  *)

\* at least one task, all of one positive duration
equal_positive_durations(tasks) ==
    /\ tasks # <<>>
    /\ \A i \in DOMAIN tasks :
          /\ has_valid_duration(tasks[i])
          /\ tasks[i].updated_at - tasks[i].created_at
                = tasks[1].updated_at - tasks[1].created_at

\* every task runs over the same interval
fully_parallel(tasks) ==
    \A i \in DOMAIN tasks : tasks[i].created_at = tasks[1].created_at

\* no two tasks run at the same time
one_after_another(tasks) ==
    \A i, j \in DOMAIN tasks :
        i # j => (tasks[i].updated_at <= tasks[j].created_at
                    \/ tasks[j].updated_at <= tasks[i].created_at)

\* the fraction has the value 1/n
is_one_over(v, n) == v.root = 1 /\ v.num * n = v.den

\* C26: for n tasks of one positive duration parallelization_efficiency is
\* 1.0 when all of them run over the same interval and 1/n when they run
\* one after another.
C26_ParallelGivesOneSerialGivesOneOverN ==
    (pc = "done" /\ equal_positive_durations(args)) =>
        /\ fully_parallel(args) => is_one(result.parallelization_efficiency)
        /\ one_after_another(args)
               => is_one_over(result.parallelization_efficiency, Len(args))

----------------------------------------------------------------------------
(* Properties of peak_parallel_tasks (SpecParallel)                        *)

\* the tasks of positive duration that run at the instant: created_at is
\* inside the interval, updated_at is not
running_at(tasks, instant) ==
    {i \in DOMAIN tasks :
        /\ tasks[i].updated_at > tasks[i].created_at
        /\ tasks[i].created_at <= instant
        /\ instant < tasks[i].updated_at}

\* C27: peak_parallel_tasks is the largest number, over all instants, of
\* tasks of positive duration whose interval from created_at (inclusive) to
\* updated_at (exclusive) holds the instant.
C27_PeakIsLargestRunningCount ==
    pc = "done" =>
        result.peak_parallel_tasks
            = Max({Cardinality(running_at(args, instant)) : instant \in IntervalInstants})

\* a task that starts when another ends and a task of non-positive
\* duration inside both: the peak is 1
C27_TouchingTasksNotConcurrent ==
    /\ pc = "done"
    /\ result.peak_parallel_tasks = 1
    /\ \E a, b, c \in DOMAIN args :
          /\ args[a].created_at < args[a].updated_at
          /\ args[a].updated_at = args[b].created_at
          /\ args[b].created_at < args[b].updated_at
          /\ args[c].updated_at <= args[c].created_at
          /\ args[a].created_at <= args[c].updated_at
          /\ args[c].created_at <= args[b].updated_at

----------------------------------------------------------------------------
(* Properties of the timestamps of a snapshot (SpecStamp)                  *)

no_timestamp(ts_str) == ts_str = NoTs \/ ts_str = BadTs

\* every datetime of every entity of the snapshot is timezone-aware
all_timestamps_aware(snapshot) ==
    /\ \A i \in DOMAIN snapshot.tasks :
          /\ snapshot.tasks[i].created_at.tzinfo = "aware"
          /\ snapshot.tasks[i].updated_at.tzinfo = "aware"
    /\ \A i \in DOMAIN snapshot.messages : snapshot.messages[i].timestamp.tzinfo = "aware"
    /\ \A i \in DOMAIN snapshot.timeline_events :
          snapshot.timeline_events[i].timestamp.tzinfo = "aware"

\* a built Message or Event carries the instant written in its record, and a
\* record without a timestamp that parses has none
records_stamped_from_source(built) ==
    /\ \A i \in DOMAIN built :
          \E j \in DOMAIN stored_messages :
             /\ stored_messages[j].id = built[i].id
             /\ ~no_timestamp(stored_messages[j].timestamp)
             /\ built[i].timestamp.instant = stored_messages[j].timestamp \div 2
    /\ \A j \in DOMAIN stored_messages :
          no_timestamp(stored_messages[j].timestamp) =>
             \A i \in DOMAIN built : built[i].id # stored_messages[j].id

\* the stored record of a task of the snapshot
stored_record_of(task) ==
    CHOOSE j \in DOMAIN stored_tasks : stored_tasks[j].id = task.id

----------------------------------------------------------------------------
(* Properties of _load_projects (SpecCache)                                *)

\* the calls before call i that read and parsed the file less than 60
\* seconds before it
recent_loads(calls, i) ==
    {j \in 1..(i - 1) :
        /\ calls[j].outcome = "loaded"
        /\ calls[i].call_time - calls[j].call_time < 60}

\* C29: a call returns the cached list without reading the file exactly
\* when a successful load happened less than 60 seconds before it, and the
\* list is that of the latest successful load; otherwise it reads the
\* file, and when the file is missing or does not parse it returns the
\* empty list and leaves the cached list and its load time as they were.
C29_CachedExactlyWithinSixtySeconds ==
    \A i \in DOMAIN returned :
        /\ returned[i].outcome = "cached" <=> recent_loads(returned, i) # {}
        /\ returned[i].outcome = "cached" =>
              returned[i].value = returned[Max(recent_loads(returned, i))].value
        /\ returned[i].outcome \in {"missing", "failed"} =>
              /\ returned[i].value = <<>>
              /\ returned[i].cache_after = returned[i].cache_before

\* a list loaded at second 0 is returned from the cache 59 seconds later
\* although the file has changed, a call at second 60 finds the file
\* corrupt, returns the empty list and keeps the cache of second 0
C29_HitAtFiftyNineFailedLoadAtSixty ==
    /\ Len(returned) = 3
    /\ returned[1].outcome = "loaded" /\ returned[1].value = <<"P1">>
    /\ returned[2].call_time = 59 /\ returned[2].outcome = "cached"
    /\ returned[2].value = <<"P1">>
    /\ returned[3].call_time = 60 /\ returned[3].outcome = "failed"
    /\ returned[3].value = <<>>
    /\ args.projects_cache = {<<"P1">>} /\ args.projects_cache_time = {0}
    /\ args.projects_file.state = "corrupt"

----------------------------------------------------------------------------
(* Properties of project_filter_applied (SpecFilter)                       *)

\* the ids the project-scoped filter selects from the store for the
\* project: those of the two passes when the project has a usable Planka
\* id, none otherwise
ids_selected_for(project_id) ==
    LET p == project_info_of(project_id)
        all_tasks == enrich_tasks_with_timing(stored_tasks)
        target_prefixes == IF p = 0 THEN <<>> ELSE target_prefixes_of(projects_data[p])
        selected == IF target_prefixes = <<>> THEN <<>>
                    ELSE filter_by_project(all_tasks, conversation_parent_ids,
                                           target_prefixes)
    IN {selected[i].id : i \in DOMAIN selected}

\* C30: a snapshot with project_filter_applied true holds only tasks that
\* the project-scoped filter selects for its project; for a project id
\* that is unknown or has no usable correlation id it holds no task.
C30_FlaggedSnapshotHoldsOnlySelectedTasks ==
    (pc = "done" /\ ~result.raised /\ result.project_filter_applied) =>
       \A i \in DOMAIN result.tasks : result.tasks[i].id \in ids_selected_for(result.project_id)

====
